---- MODULE Spec2Model ----
(***************************************************************************)
(* Model of the ReAct control loop of the NORM device agent:                *)
(*   src/react_agent.py        ReActAgent.process_query and helpers         *)
(*   src/utils/tool_manager.py ToolManager (extraction, identity, execute)  *)
(*   src/tools/norm_tools.py   NormTools (outcome classes of the HTTP tools)*)
(*   src/utils/formatters.py   ResponseFormatter.format_observation         *)
(*                                                                         *)
(* A text (Python str) is a sequence of tokens.  A token is a string: one   *)
(* whitespace character, one word, one of the literal markers the code      *)
(* searches for, one fixed message of the code, or the name of a tool-call  *)
(* block whose content Block(b) gives.                                      *)
(***************************************************************************)
EXTENDS Integers, Sequences, FiniteSets, TLC

VARIABLES
    conversation_history,      \* self.conversation_history
    last_device_info,          \* self.last_device_info
    max_iterations,            \* self.max_iterations
    messages,                  \* local: outbound message list
    current_context,           \* local: accumulated free text
    iterations,                \* local: round counter
    tool_executions,           \* local: the execution ledger (list of ids)
    last_response,             \* local
    identical_response_count,  \* local
    device_info_executed,      \* local flag
    device_report_executed,    \* local flag
    pc,                        \* "idle", "loop" (at the while test), "done"
    exit,                      \* which return statement ended the query
    returned,                  \* the text process_query returned
    model_log,                 \* history: the model calls of the query, in
                               \* order: raised or the text returned, and
                               \* whether line 211 declared a stall
    exec_log,                  \* history: the execute_tool calls of the
                               \* query: call, result, round
    query_log,                 \* history: the queries process_query was
                               \* called with, in order
    session_exec_log,          \* history: the execute_tool calls of the
                               \* agent instance: call, result, query
    extract_log,               \* history: the direct calls of the methods of
                               \* ToolManager and of the tools: method,
                               \* input, result
    main_pc,                   \* main(): "prompt" while the loop of line 52
                               \* runs, "ended" after a break
    main_log,                  \* history: what main() read at the prompt,
                               \* whether the agent was called, how the
                               \* round of the loop ended
    simple_pc,                 \* SimpleReActAgent.run: "idle", "run" (at the
                               \* for test), "returned", "raised"
    simple_messages,           \* local of run: the message list
    simple_step,               \* local of run: the rounds started
    simple_returned,           \* the text run returned, or the exception
    simple_log                 \* history: the rounds of every run: run,
                               \* messages sent, output, tool call, result

vars == <<conversation_history, last_device_info, max_iterations, messages,
          current_context, iterations, tool_executions, last_response,
          identical_response_count, device_info_executed,
          device_report_executed, pc, exit, returned, model_log, exec_log,
          query_log, session_exec_log, extract_log, main_pc, main_log,
          simple_pc, simple_messages, simple_step, simple_returned,
          simple_log>>

----------------------------------------------------------------------------
(* Bounds                                                                  *)

\* self.max_iterations is an instance attribute; the model covers every
\* value 1..MaxIterations of it.
MaxIterations == 3

----------------------------------------------------------------------------
(* Texts                                                                   *)

WS == " "
NL == "\n"
Whitespace == {WS, NL}
FINAL == "Final Answer:"
OBSERVATION == "Observation:"

RECURSIVE StripLeft(_)
StripLeft(s) ==
    IF s = <<>> THEN <<>>
    ELSE IF Head(s) \in Whitespace THEN StripLeft(Tail(s)) ELSE s

RECURSIVE StripRight(_)
StripRight(s) ==
    IF s = <<>> THEN <<>>
    ELSE IF s[Len(s)] \in Whitespace THEN StripRight(SubSeq(s, 1, Len(s) - 1)) ELSE s

\* str.strip()
Strip(s) == StripRight(StripLeft(s))

\* tok in text
Contains(s, tok) == \E i \in 1..Len(s) : s[i] = tok

\* index of the first occurrence of tok in s (0 when absent)
FirstIndex(s, tok) ==
    IF Contains(s, tok)
    THEN CHOOSE i \in 1..Len(s) :
            s[i] = tok /\ \A j \in 1..(i - 1) : s[j] # tok
    ELSE 0

----------------------------------------------------------------------------
(* Tool-call blocks embedded in model text                                 *)

\* JSON argument values of the model's tool calls
Args(shape, kv) == [shape |-> shape, kv |-> kv]
NoArguments == Args("missing", <<>>)      \* the object has no "arguments" key
ScalarArguments == Args("scalar", <<>>)   \* "arguments" is a JSON string

\* syntax: "xml" is <tool_call>...</tool_call>, "md" is ```tool_call ... ```
\* json:   "ok" parses; "invalid" is brace-delimited text json.loads rejects;
\*         "unclosed" is text starting with { with no } before the closing
\*         delimiter
Blk(syntax, json, has_name, name, args, id) ==
    [syntax |-> syntax, json |-> json, has_name |-> has_name,
     name |-> name, args |-> args, id |-> id]

GET_DEVICE_INFO == "get_device_info"
GET_DEVICE_REPORT == "get_device_report"

BlockTokens ==
    {"X:info_h1", "M:info_h1_id2", "X:info_h2", "X:info_scalar",
     "X:report_ce", "X:report_ce_perm", "X:report_timos", "X:report_other",
     "X:foo_ab", "M:foo_ba", "X:foo", "X:invalid", "M:invalid",
     "X:noname", "X:unclosed", "M:unclosed", "X:foo_empty", "X:info_noargs",
     "X:info_empty"}

Block(b) ==
    CASE b = "X:info_h1" ->
            Blk("xml", "ok", TRUE, GET_DEVICE_INFO,
                Args("map", << <<"hostname", "h1">> >>), "1")
      [] b = "M:info_h1_id2" ->
            Blk("md", "ok", TRUE, GET_DEVICE_INFO,
                Args("map", << <<"hostname", "h1">> >>), "2")
      [] b = "X:info_h2" ->
            Blk("xml", "ok", TRUE, GET_DEVICE_INFO,
                Args("map", << <<"hostname", "h2">> >>), "1")
      [] b = "X:info_scalar" ->
            Blk("xml", "ok", TRUE, GET_DEVICE_INFO, ScalarArguments, "1")
      [] b = "X:report_ce" ->
            Blk("xml", "ok", TRUE, GET_DEVICE_REPORT,
                Args("map", << <<"hostname", "h1">>,
                               <<"tags", "CE_COMWARE">> >>), "1")
      [] b = "X:report_ce_perm" ->
            Blk("xml", "ok", TRUE, GET_DEVICE_REPORT,
                Args("map", << <<"tags", "CE_COMWARE">>,
                               <<"hostname", "h1">> >>), "1")
      [] b = "X:report_timos" ->
            Blk("xml", "ok", TRUE, GET_DEVICE_REPORT,
                Args("map", << <<"hostname", "h1">>,
                               <<"tags", "TIMOS_CORE">> >>), "1")
      [] b = "X:report_other" ->
            Blk("xml", "ok", TRUE, GET_DEVICE_REPORT,
                Args("map", << <<"hostname", "h1">>,
                               <<"tags", "OTHER">> >>), "1")
      [] b = "X:foo_ab" ->
            Blk("xml", "ok", TRUE, "foo",
                Args("map", << <<"a", "1">>, <<"b", "2">> >>), "1")
      [] b = "M:foo_ba" ->
            Blk("md", "ok", TRUE, "foo",
                Args("map", << <<"b", "2">>, <<"a", "1">> >>), "1")
      [] b = "X:foo" ->
            Blk("xml", "ok", TRUE, "foo", NoArguments, "1")
      [] b = "X:invalid" ->
            Blk("xml", "invalid", FALSE, "", NoArguments, "")
      [] b = "M:invalid" ->
            Blk("md", "invalid", FALSE, "", NoArguments, "")
      [] b = "X:noname" ->
            Blk("xml", "ok", FALSE, "", Args("map", <<>>), "1")
      [] b = "X:unclosed" ->
            Blk("xml", "unclosed", FALSE, "", NoArguments, "")
      [] b = "M:unclosed" ->
            Blk("md", "unclosed", FALSE, "", NoArguments, "")
      [] b = "X:foo_empty" ->
            Blk("xml", "ok", TRUE, "foo", Args("map", <<>>), "1")
      [] b = "X:info_noargs" ->
            Blk("xml", "ok", TRUE, GET_DEVICE_INFO, NoArguments, "1")
      [] b = "X:info_empty" ->
            Blk("xml", "ok", TRUE, GET_DEVICE_INFO, Args("map", <<>>), "1")

IsBlock(tok, syntax) == tok \in BlockTokens /\ Block(tok).syntax = syntax

\* the dict json.loads returns for a block that parses
ToolCall(b) == [name |-> Block(b).name, args |-> Block(b).args,
                id |-> Block(b).id]

\* re.finditer(pattern, response, re.DOTALL) followed by json.loads and the
\* "name" test, for one pattern.  pending: an unclosed block has opened a
\* match, which the lazy .*? extends to the next } before a closing
\* delimiter, so the match swallows the next closed block of the syntax.
RECURSIVE MatchesOf(_, _, _)
MatchesOf(s, syntax, pending) ==
    IF s = <<>> THEN <<>>
    ELSE IF ~IsBlock(Head(s), syntax) THEN MatchesOf(Tail(s), syntax, pending)
    ELSE IF pending
         THEN MatchesOf(Tail(s), syntax, Block(Head(s)).json = "unclosed")
    ELSE IF Block(Head(s)).json = "unclosed"
         THEN MatchesOf(Tail(s), syntax, TRUE)
    ELSE IF Block(Head(s)).json = "ok" /\ Block(Head(s)).has_name
         THEN <<ToolCall(Head(s))>> \o MatchesOf(Tail(s), syntax, FALSE)
    ELSE MatchesOf(Tail(s), syntax, FALSE)

\* ToolManager.find_all_tool_calls: every match of the first pattern, then
\* every match of the second
find_all_tool_calls(response) ==
    MatchesOf(response, "xml", FALSE) \o MatchesOf(response, "md", FALSE)

\* re.search(pattern, response, re.DOTALL): the block of the first match of
\* one pattern, "" when the text has no block of the syntax.  A first block
\* that is unclosed either matches together with the next closed block, as
\* text json.loads rejects, or does not match at all.
RECURSIVE FirstBlock(_, _)
FirstBlock(s, syntax) ==
    IF s = <<>> THEN ""
    ELSE IF IsBlock(Head(s), syntax) THEN Head(s)
    ELSE FirstBlock(Tail(s), syntax)

NoToolCall == [name |-> "None", args |-> NoArguments, id |-> ""]

\* ToolManager.parse_tool_call: the first match of the first pattern if it
\* parses and has a "name", else the first match of the second pattern if
\* it does, else None
parse_tool_call(response) ==
    LET Parsed(b) == /\ b # ""
                     /\ Block(b).json = "ok"
                     /\ Block(b).has_name
        x == FirstBlock(response, "xml")
        m == FirstBlock(response, "md")
    IN  IF Parsed(x) THEN ToolCall(x)
        ELSE IF Parsed(m) THEN ToolCall(m)
        ELSE NoToolCall

\* str(tool_call.get('arguments', {})): a dict prints its items in insertion
\* order; a missing key prints as the empty dict
SerializeAsIs(args) == args

Serialize(args) ==
    IF args.shape = "missing" THEN Args("map", <<>>) ELSE args

\* ToolManager.generate_tool_id: a digest of "<name>_<str(arguments)>" (the
\* digest is taken to be collision-free on the calls of the model)
generate_tool_id(tool_call) == <<tool_call.name, Serialize(tool_call.args)>>

\* the set of (key, value) items of an argument dict
Items(args) == {args.kv[i] : i \in 1..Len(args.kv)}
Keys(args) == {args.kv[i][1] : i \in 1..Len(args.kv)}
ValueOf(args, key) ==
    LET i == CHOOSE j \in 1..Len(args.kv) : args.kv[j][1] = key
    IN  args.kv[i][2]

\* str.lower() on the words of the model
LowerTok(tok) ==
    CASE tok = "YES" -> "yes"
      [] tok = "Detailed Report" -> "detailed report"
      [] tok \in {"CE", "Ce"} -> "ce"
      [] tok = "COMWARE" -> "comware"
      [] tok = "TIMOS" -> "timos"
      [] tok = "CORE" -> "core"
      [] tok \in {"EXIT", "Exit"} -> "exit"
      [] tok = "QUIT" -> "quit"
      [] tok = "Q" -> "q"
      [] OTHER -> tok
Lower(s) == [i \in 1..Len(s) |-> LowerTok(s[i])]

----------------------------------------------------------------------------
(* Tools                                                                   *)

Success(data) == [success |-> TRUE, error |-> "", data |-> data]
Failure(error) == [success |-> FALSE, error |-> error, data |-> ""]
\* the tool function raises an exception it does not catch itself
Raised(exc) == [success |-> FALSE, error |-> exc, data |-> "raised"]

\* shapes of the JSON object the search endpoint may answer with status 200:
\* "search" has a "data" list of objects, "search_scalars" a "data" list
\* whose items are no objects
InfoShapes == {"search", "search_scalars"}

\* NormTools.get_device_info(hostname): the HTTP call answers or fails; a
\* body that is no JSON object raises AttributeError at line 62, which only
\* the caller catches
get_device_info(hostname) ==
    {Success(d) : d \in InfoShapes}
        \cup {Failure("RequestException"), Raised("AttributeError")}

\* how one HTTP request ends: the status of the answer, or no answer
Http == {"200", "404", "409", "500", "unreachable"}

\* the JSON lists a "tags" argument is written as, each under a name
TagNames ==
    {"CE_COMWARE", "comware_x_Ce", "TIMOS_CORE", "core_timos", "CE_CORE",
     "TIMOS", "OTHER", "EMPTY"}

TagList(tags) ==
    CASE tags = "CE_COMWARE" -> <<"CE", "COMWARE">>
      [] tags = "comware_x_Ce" -> <<"comware", "x", "Ce">>
      [] tags = "TIMOS_CORE" -> <<"TIMOS", "CORE">>
      [] tags = "core_timos" -> <<"core", "timos">>
      [] tags = "CE_CORE" -> <<"CE", "CORE">>
      [] tags = "TIMOS" -> <<"TIMOS">>
      [] tags = "OTHER" -> <<"OTHER">>
      [] tags = "EMPTY" -> <<>>

\* lines 95-126 of norm_tools.py and 129-138 of get_device_report.py: the
\* report the tags select, compared in lower case
ReportKind(tags) ==
    LET tags_lower == {LowerTok(TagList(tags)[i]) :
                          i \in 1..Len(TagList(tags))}
    IN  IF {"ce", "comware"} \subseteq tags_lower THEN "comware_ce"
        ELSE IF {"timos", "core"} \subseteq tags_lower THEN "timos_core"
        ELSE "none"

\* error texts of the two implementations of get_device_report
NO_SPECIFIC_REPORT == "No specific report available for device with tags"
UNKNOWN_DEVICE_TYPE ==
    "Unknown device type for tags. Use ['TIMOS', 'CORE'] or ['CE', 'COMWARE']"
DEVICE_TYPE_MISMATCH ==
    "Device type mismatch. Try different tags: ['TIMOS', 'CORE'] or ['CE', 'COMWARE']"
DEVICE_NOT_FOUND == "Device not found in the category"
HTTP_ERROR == "HTTP Error"
\* str(e) of an exception of the requests library
REQUEST_EXCEPTION == "RequestException"

\* lines 118-124: the five endpoints of the TIMOS core report
Endpoints == {"saps", "routes", "device_info", "subscribers", "interfaces"}

\* lines 126-151: the entry stored under the key of each endpoint, given how
\* its request ended: the body of a 200 answer, {"error": "HTTP <status>"}
\* for another status, {"error": str(e)} for an exception
TimosEntries(answers) ==
    [e \in Endpoints |->
        IF answers[e] = "200" THEN "json"
        ELSE IF answers[e] = "unreachable" THEN "error: exception"
        ELSE "error: HTTP " \o answers[e]]

\* the shape of the TIMOS report data: "report_timos_errors" is a report
\* with an {"error": ...} entry
TimosShape(entries) ==
    IF \A e \in Endpoints : entries[e] = "json"
    THEN "report_timos" ELSE "report_timos_errors"

\* lines 153 and 165-170, mutated to fail on an endpoint error
TimosResultStrict(entries) ==
    IF \A e \in Endpoints : entries[e] = "json"
    THEN Success("report_timos") ELSE Failure(HTTP_ERROR)

\* lines 153 and 165-170: the result of the TIMOS core path
TimosResult(entries) == Success(TimosShape(entries))

\* NormTools.get_device_report(hostname, tags) when every request it sends
\* ends as http: "report_comware_scalar" is the report whose comware_detail
\* is a JSON number
NormTools_get_device_report(hostname, tags, http) ==
    CASE ReportKind(tags) = "comware_ce" ->
            IF http = "200"
            THEN {Success("report_comware"), Success("report_comware_scalar")}
            ELSE {Failure(REQUEST_EXCEPTION)}
      [] ReportKind(tags) = "timos_core" ->
            {TimosResult(TimosEntries([e \in Endpoints |-> http]))}
      [] OTHER -> {Failure(NO_SPECIFIC_REPORT)}

\* the requests NormTools.get_device_report sends
NormTools_requests(tags) ==
    CASE ReportKind(tags) = "comware_ce" -> 1
      [] ReportKind(tags) = "timos_core" -> 5
      [] OTHER -> 0

get_device_report(hostname, tags) ==
    UNION {NormTools_get_device_report(hostname, tags, http) : http \in Http}

\* f(**arguments): arguments must be a mapping whose keys are exactly the
\* parameters, else Python raises TypeError inside execute_tool's try
Binds(args, params) == Serialize(args).shape = "map" /\ Keys(args) = params

\* lines 60-65: an exception of the tool function becomes a failure result
Caught(result) ==
    IF result.data = "raised"
    THEN Failure("Error executing tool: " \o result.error)
    ELSE result

\* ToolManager.execute_tool: the results it can return (it never raises)
execute_tool(tool_call) ==
    IF tool_call.name = GET_DEVICE_INFO
    THEN IF Binds(tool_call.args, {"hostname"})
         THEN {Caught(r) :
                 r \in get_device_info(ValueOf(tool_call.args, "hostname"))}
         ELSE {Caught(Raised("TypeError"))}
    ELSE IF tool_call.name = GET_DEVICE_REPORT
    THEN IF Binds(tool_call.args, {"hostname", "tags"})
         THEN {Caught(r) :
                 r \in get_device_report(ValueOf(tool_call.args, "hostname"),
                                         ValueOf(tool_call.args, "tags"))}
         ELSE {Caught(Raised("TypeError"))}
    ELSE {Failure("Unknown tool")}

\* ResponseFormatter.format_observation on a success result, by the shape of
\* result["data"]: the text it returns, or the exception it raises
Formatted(text) == [raises |-> FALSE, text |-> text]
Raises(exc) == [raises |-> TRUE, text |-> <<exc>>]

format_observation(result) ==
    IF ~result.success
    THEN Formatted(<<"Failed to retrieve data: ", result.error>>)
    ELSE CASE result.data \in {"report_comware", "report_timos",
                                  "report_timos_errors"} ->
                 Formatted(<<"fmt:" \o result.data>>)
           [] result.data = "report_comware_scalar" -> Raises("TypeError")
           [] result.data = "search" -> Formatted(<<"fmt:search">>)
           [] result.data = "search_scalars" -> Raises("AttributeError")
           [] result.data = "list_empty" ->
                 Formatted(<<"No devices found matching the criteria.">>)
           [] result.data = "list_dicts" -> Formatted(<<"fmt:devices">>)
           [] result.data = "list_scalars" -> Raises("AttributeError")
           [] result.data = "dict_other" -> Formatted(<<"fmt:device">>)
           [] result.data = "null" -> Raises("AttributeError")
           [] result.data = "scalar" -> Raises("AttributeError")
           [] result.data = "report_unknown" -> Formatted(<<>>)

\* ReActAgent._execute_tool given the result execute_tool returned
ExecuteToolObservation(result) ==
    IF result.success
    THEN format_observation(result)
    ELSE Formatted(<<"Tool execution failed: ", result.error>>)

\* GetDeviceInfo.execute(hostname) when the request ends as http: a body
\* that is no JSON object raises AttributeError at line 163, which
\* execute does not catch
GetDeviceInfo_execute(hostname, http) ==
    IF http = "200"
    THEN {Success(d) : d \in InfoShapes} \cup {Raised("AttributeError")}
    ELSE {Failure(REQUEST_EXCEPTION)}

\* GetDeviceReport.execute(hostname, tags) when the request ends as http:
\* "report_detail" is a body that is a JSON object, "report_detail_scalar"
\* one that is not
GetDeviceReport_execute(hostname, tags, http) ==
    IF ReportKind(tags) = "none" THEN {Failure(UNKNOWN_DEVICE_TYPE)}
    ELSE CASE http = "200" ->
                 {Success("report_detail"), Success("report_detail_scalar")}
           [] http = "409" -> {Failure(DEVICE_TYPE_MISMATCH)}
           [] http = "404" -> {Failure(DEVICE_NOT_FOUND)}
           [] http = "500" -> {Failure(HTTP_ERROR)}
           [] http = "unreachable" -> {Failure(REQUEST_EXCEPTION)}

\* the requests GetDeviceReport.execute sends
GetDeviceReport_requests(tags) == IF ReportKind(tags) = "none" THEN 0 ELSE 1

\* interpret_response of the two enhanced tools on a success result
interpret_response(tool_name, result) ==
    CASE result.data \in {"search", "report_detail"} ->
            Formatted(<<"interpretation:" \o result.data>>)
      [] result.data \in {"search_scalars", "report_detail_scalar"} ->
            Raises("AttributeError")

\* what EnhancedNormTools.execute_tool hands to its caller: a result with
\* its interpretation, or an exception
Interpreted(result, interpretation) ==
    [success |-> result.success, error |-> result.error,
     data |-> result.data, interpretation |-> interpretation]

KwargsGet(kwargs, key, default) ==
    IF key \in Keys(kwargs) THEN ValueOf(kwargs, key) ELSE default

EnhancedNormTools_tools == {GET_DEVICE_INFO, GET_DEVICE_REPORT}

\* EnhancedNormTools.execute_tool(tool_name, **kwargs) when the request of
\* the tool ends as http
EnhancedNormTools_execute_tool(tool_name, kwargs, http) ==
    IF tool_name \notin EnhancedNormTools_tools
    THEN {Interpreted(Failure("Unknown tool"), <<"Tool not found">>)}
    ELSE LET results ==
                 IF tool_name = GET_DEVICE_INFO
                 THEN GetDeviceInfo_execute(
                          KwargsGet(kwargs, "hostname", ""), http)
                 ELSE GetDeviceReport_execute(
                          KwargsGet(kwargs, "hostname", ""),
                          KwargsGet(kwargs, "tags", "EMPTY"), http)
             Answer(result) ==
                 IF result.data = "raised" THEN Interpreted(result, <<>>)
                 ELSE IF ~result.success THEN Interpreted(result, <<>>)
                 ELSE LET text == interpret_response(tool_name, result)
                      IN  IF text.raises
                          THEN Interpreted(Raised(text.text[1]), <<>>)
                          ELSE Interpreted(result, text.text)
         IN  {Answer(result) : result \in results}

\* SimpleReActAgent.run, lines 151-163: the user turn that answers a tool
\* call whose result execute_tool returned
SimpleObservation(tool_name, result) ==
    <<OBSERVATION, WS>> \o
    (IF result.success
     THEN IF tool_name = GET_DEVICE_INFO
          THEN result.interpretation \o <<"steer:final_answer_no_more_tools">>
          ELSE result.interpretation \o <<"steer:final_answer">>
     ELSE <<"Error - ", result.error, "steer:explain_issue">>)

----------------------------------------------------------------------------
(* ReActAgent                                                              *)

Msg(role, content) == [role |-> role, content |-> content]

NoDeviceInfo == [set |-> FALSE, hostname |-> "", observation |-> <<>>]

\* what the user types
Queries == {<<"show", WS, "h1">>, <<"YES", WS>>}

Affirmations == {"yes", "y", "sure", "ok", "okay", "yep", "yeah"}

\* the texts the model backend may answer with
Outputs ==
    { <<"a">>,
      <<WS, "a", WS>>,
      <<"b">>,
      <<>>,
      <<"a", FINAL, WS, "b", WS>>,
      <<FINAL, WS>>,
      <<FINAL, "a", FINAL, "b">>,
      <<"a", "X:info_h1">>,
      <<"M:info_h1_id2", FINAL, "a">>,
      <<"X:info_scalar">>,
      <<"X:report_ce">>,
      <<"X:report_ce_perm">>,
      <<"X:foo_ab">>,
      <<"M:foo_ba", "X:info_h2">>,
      <<OBSERVATION, "X:invalid">>,
      <<"X:foo_ab", "X:foo", "M:foo_ba">>,
      <<"X:foo_ab", "X:foo", "X:info_scalar">> }

\* the ledger as a set
Ledger(executions) == {executions[i] : i \in 1..Len(executions)}

\* the most recent K entries of the history (K = 10)
HistoryWindow == 10
RecentWhole(history) == history

Recent(history) ==
    IF Len(history) > HistoryWindow
    THEN SubSeq(history, Len(history) - HistoryWindow + 1, Len(history))
    ELSE history

\* lines 164-168: some assistant entry mentions "detailed report" and has "?"
AsksForReportNoQuestion(entry) ==
    /\ entry.role = "assistant"
    /\ Contains(Lower(entry.content), "detailed report")

AsksForReport(entry) ==
    /\ entry.role = "assistant"
    /\ Contains(Lower(entry.content), "detailed report")
    /\ Contains(entry.content, "?")

\* lines 161-175: the synthetic messages the affirmation shortcut appends
AffirmationMessages(user_query, history, device_info) ==
    IF /\ Len(Strip(Lower(user_query))) = 1
       /\ Strip(Lower(user_query))[1] \in Affirmations
       /\ \E i \in 1..Len(history) : AsksForReport(history[i])
    THEN IF device_info.set
         THEN <<Msg("user", user_query \o <<"steer:confirmed_report_for",
                                            device_info.hostname>>)>>
         ELSE <<Msg("user", user_query \o <<"steer:confirmed_report">>)>>
    ELSE <<>>

\* process_query, lines 151-183: up to the first test of the while loop
StartQueryKeepingLedger(user_query) ==
    /\ pc # "loop"
    /\ conversation_history' =
          Append(conversation_history, Msg("user", user_query))
    /\ messages' = <<Msg("system", <<"SYSTEM_PROMPT">>)>>
                   \o Recent(conversation_history')
                   \o AffirmationMessages(user_query, conversation_history',
                                          last_device_info)
    /\ current_context' = <<>>
    /\ iterations' = 0
    /\ last_response' = <<>>
    /\ identical_response_count' = 0
    /\ device_info_executed' = FALSE
    /\ device_report_executed' = FALSE
    /\ pc' = "loop"
    /\ exit' = "none"
    /\ returned' = <<>>
    /\ model_log' = <<>>
    /\ exec_log' = <<>>
    /\ query_log' = Append(query_log, user_query)
    /\ UNCHANGED <<last_device_info, max_iterations, session_exec_log,
                   tool_executions,
                   extract_log, main_pc, main_log, simple_pc,
                   simple_messages, simple_step, simple_returned,
                   simple_log>>

StartQuery(user_query) ==
    /\ pc # "loop"
    /\ conversation_history' =
          Append(conversation_history, Msg("user", user_query))
    /\ messages' = <<Msg("system", <<"SYSTEM_PROMPT">>)>>
                   \o Recent(conversation_history')
                   \o AffirmationMessages(user_query, conversation_history',
                                          last_device_info)
    /\ current_context' = <<>>
    /\ iterations' = 0
    /\ tool_executions' = <<>>
    /\ last_response' = <<>>
    /\ identical_response_count' = 0
    /\ device_info_executed' = FALSE
    /\ device_report_executed' = FALSE
    /\ pc' = "loop"
    /\ exit' = "none"
    /\ returned' = <<>>
    /\ model_log' = <<>>
    /\ exec_log' = <<>>
    /\ query_log' = Append(query_log, user_query)
    /\ UNCHANGED <<last_device_info, max_iterations, session_exec_log,
                   extract_log, main_pc, main_log, simple_pc,
                   simple_messages, simple_step, simple_returned,
                   simple_log>>

\* a return statement of process_query: the text goes to the history as the
\* assistant turn and to the caller
ReturnUnrecorded(kind, text) ==
    /\ UNCHANGED conversation_history
    /\ returned' = text
    /\ exit' = kind
    /\ pc' = "done"

Return(kind, text) ==
    /\ conversation_history' =
          Append(conversation_history, Msg("assistant", text))
    /\ returned' = text
    /\ exit' = kind
    /\ pc' = "done"

\* the while test letting one round too many through
WithinBudgetInclusive == iterations <= max_iterations

\* line 185: the test of the while loop
WithinBudget == iterations < max_iterations

\* lines 322-326: the except branch
error_msg(e) == <<"I encountered an error while processing your request: ", e>>

\* a failed model call that is swallowed: the loop goes on to the next round
ModelRaisesRetried ==
    /\ pc = "loop"
    /\ WithinBudget
    /\ iterations' = iterations + 1
    /\ model_log' = Append(model_log, [raised |-> TRUE, text |-> <<>>,
                                        stall |-> FALSE])
    /\ UNCHANGED <<conversation_history, last_device_info, max_iterations,
                   messages, current_context, tool_executions, last_response,
                   identical_response_count, device_info_executed,
                   device_report_executed, pc, exit, returned, exec_log,
                   query_log, session_exec_log,
                   extract_log, main_pc, main_log, simple_pc,
                   simple_messages, simple_step, simple_returned,
                   simple_log>>

\* lines 196-203 raise: the model backend failed
ModelRaises ==
    /\ pc = "loop"
    /\ WithinBudget
    /\ iterations' = iterations + 1
    /\ model_log' = Append(model_log, [raised |-> TRUE, text |-> <<>>,
                                        stall |-> FALSE])
    /\ Return("error", error_msg("BackendError"))
    /\ UNCHANGED <<last_device_info, max_iterations, messages,
                   current_context, tool_executions, last_response,
                   identical_response_count, device_info_executed,
                   device_report_executed, exec_log, query_log,
                   session_exec_log,
                   extract_log, main_pc, main_log, simple_pc,
                   simple_messages, simple_step, simple_returned,
                   simple_log>>

\* lines 328-331: the while test fails
timeout_msg(context) == <<"I've reached the maximum number of reasoning steps.">> \o context

BudgetExhausted ==
    /\ pc = "loop"
    /\ ~WithinBudget
    /\ Return("budget", timeout_msg(current_context))
    /\ UNCHANGED <<last_device_info, max_iterations, messages,
                   current_context, iterations, tool_executions,
                   last_response, identical_response_count,
                   device_info_executed, device_report_executed,
                   model_log, exec_log, query_log, session_exec_log,
                   extract_log, main_pc, main_log, simple_pc,
                   simple_messages, simple_step, simple_returned,
                   simple_log>>

\* the captured group returned without .strip()
final_answer_untrimmed(agent_response) ==
    SubSeq(agent_response, FirstIndex(agent_response, FINAL) + 1,
           Len(agent_response))

\* line 298, 300: re.search(r'Final Answer:\s*(.*)', ...).group(1).strip()
final_answer(agent_response) ==
    Strip(SubSeq(agent_response, FirstIndex(agent_response, FINAL) + 1,
                 Len(agent_response)))

\* Executable without the ledger test of line 238
ExecutableNoLedger(tool_call, executions, info_executed, report_executed) ==
    /\ ~(info_executed /\ tool_call.name = GET_DEVICE_INFO)
    /\ ~report_executed

\* Executable without the device-report test of line 243
ExecutableAfterReport(tool_call, executions, info_executed, report_executed) ==
    /\ generate_tool_id(tool_call) \notin Ledger(executions)
    /\ ~(info_executed /\ tool_call.name = GET_DEVICE_INFO)

\* Executable without the device-info test of line 239
ExecutableInfoTwice(tool_call, executions, info_executed, report_executed) ==
    /\ generate_tool_id(tool_call) \notin Ledger(executions)
    /\ ~report_executed

\* lines 234-245: the tool calls of the response that may still be executed
Executable(tool_call, executions, info_executed, report_executed) ==
    /\ generate_tool_id(tool_call) \notin Ledger(executions)
    /\ ~(info_executed /\ tool_call.name = GET_DEVICE_INFO)
    /\ ~report_executed

ObservationTurnSteered(name, observation_text) ==
    observation_text \o <<"steer:answer_and_offer_report">>

\* lines 268-273: the user turn that carries the observation
ObservationTurn(name, observation_text) ==
    IF name = GET_DEVICE_INFO
    THEN observation_text \o <<"steer:answer_and_offer_report">>
    ELSE IF name = GET_DEVICE_REPORT
    THEN observation_text \o <<"steer:successfully_retrieved_report">>
    ELSE observation_text

\* lines 288-293 and 315-320: steering chosen by the terminal flags
SteerAlreadyInfoFirst ==
    IF device_info_executed THEN <<"steer:already_executed_info">>
    ELSE IF device_report_executed THEN <<"steer:already_executed_report">>
    ELSE <<"steer:all_tools_executed">>

SteerAlready ==
    IF device_report_executed THEN <<"steer:already_executed_report">>
    ELSE IF device_info_executed THEN <<"steer:already_executed_info">>
    ELSE <<"steer:all_tools_executed">>

SteerContinue ==
    IF device_report_executed THEN <<"steer:already_have_report">>
    ELSE IF device_info_executed THEN <<"steer:already_have_info">>
    ELSE <<"steer:continue_or_answer">>

\* lines 247-277: the first executable tool call is executed and answered
\* with result; msgs and context are the message list and the context as the
\* round has left them so far
ExecuteRound(agent_response, tool_call, result, msgs, context) ==
    LET observation == ExecuteToolObservation(result)
        observation_text == <<OBSERVATION, WS>> \o observation.text
        is_info == tool_call.name = GET_DEVICE_INFO
        is_report == tool_call.name = GET_DEVICE_REPORT
    IN
    /\ exec_log' = Append(exec_log, [call |-> tool_call, result |-> result,
                                     round |-> iterations'])
    /\ session_exec_log' =
          Append(session_exec_log, [call |-> tool_call, result |-> result,
                                    query |-> Len(query_log)])
    /\ IF observation.raises
       THEN \* line 248 raises out of the formatter
            /\ Return("error", error_msg(observation.text[1]))
            /\ messages' = msgs
            /\ current_context' = context
            /\ UNCHANGED <<tool_executions, device_info_executed,
                           device_report_executed, last_device_info>>
       ELSE
            /\ current_context' =
                  context \o <<NL>> \o observation_text \o <<NL>>
            /\ tool_executions' =
                  Append(tool_executions, generate_tool_id(tool_call))
            /\ device_info_executed' = (device_info_executed \/ is_info)
            /\ IF is_info /\ tool_call.args.shape = "scalar"
               THEN \* line 258: .get on a value that is no dict
                    /\ Return("error", error_msg("AttributeError"))
                    /\ messages' = msgs
                    /\ UNCHANGED <<device_report_executed, last_device_info>>
               ELSE
                    /\ last_device_info' =
                          IF is_info
                          THEN [set |-> TRUE,
                                hostname |->
                                   IF "hostname" \in Keys(tool_call.args)
                                   THEN ValueOf(tool_call.args, "hostname")
                                   ELSE "None",
                                observation |-> observation_text]
                          ELSE last_device_info
                    /\ device_report_executed' =
                          (device_report_executed \/ is_report)
                    /\ messages' =
                          msgs \o <<Msg("assistant", agent_response),
                                    Msg("user",
                                        ObservationTurn(tool_call.name,
                                                        observation_text))>>
                    /\ UNCHANGED <<conversation_history, returned, exit, pc>>

\* lines 279-320: no tool was executed in the round
NoToolRound(agent_response, tool_calls_found, msgs, context) ==
    LET all_tools_executed ==
            /\ tool_calls_found # <<>>
            /\ \A i \in 1..Len(tool_calls_found) :
                  generate_tool_id(tool_calls_found[i])
                     \in Ledger(tool_executions)
    IN
    /\ current_context' = context
    /\ UNCHANGED <<tool_executions, device_info_executed,
                   device_report_executed, last_device_info, exec_log,
                   session_exec_log>>
    /\ IF all_tools_executed
       THEN /\ messages' = Append(msgs, Msg("user", SteerAlready))
            /\ UNCHANGED <<conversation_history, returned, exit, pc>>
       ELSE IF Contains(agent_response, FINAL)
       THEN /\ Return("final", final_answer(agent_response))
            /\ messages' = msgs
       ELSE IF /\ Contains(agent_response, OBSERVATION)
               /\ \E i \in 1..Len(agent_response) :
                     IsBlock(agent_response[i], "xml")
       THEN /\ messages' = msgs \o <<Msg("assistant", agent_response),
                                     Msg("user", <<"steer:execute_first_tool">>)>>
            /\ UNCHANGED <<conversation_history, returned, exit, pc>>
       ELSE /\ messages' = msgs \o <<Msg("assistant", agent_response),
                                     Msg("user", SteerContinue)>>
            /\ UNCHANGED <<conversation_history, returned, exit, pc>>

\* lines 219: the answer of the stall exit
loop_msg(context) == <<"The agent got stuck in a reasoning loop.">> \o context

\* the counter after line 208-223 has seen the response
IdenticalCount(agent_response) ==
    IF Strip(agent_response) = Strip(last_response)
    THEN identical_response_count + 1
    ELSE 0

\* line 208-210: a stall is declared
StallDeclared(agent_response) ==
    /\ Strip(agent_response) = Strip(last_response)
    /\ IdenticalCount(agent_response) >= 2

\* a round that looks for the final answer before it executes a tool
FinalFirst(candidates, agent_response) ==
    candidates # {} /\ ~Contains(agent_response, FINAL)

\* line 247: a tool call that may be executed is executed, whatever else
\* the response holds; the final answer is looked for at line 296 only
ToolFirst(candidates, agent_response) == candidates # {}

\* one round of the while loop in which the model call returns a text:
\* lines 186-320
ModelReturns(agent_response) ==
    /\ pc = "loop"
    /\ WithinBudget
    /\ iterations' = iterations + 1
    /\ model_log' = Append(model_log,
                           [raised |-> FALSE, text |-> agent_response,
                            stall |-> StallDeclared(agent_response)])
    /\ identical_response_count' = IdenticalCount(agent_response)
    /\ UNCHANGED <<max_iterations, query_log,
                   extract_log, main_pc, main_log, simple_pc,
                   simple_messages, simple_step, simple_returned,
                   simple_log>>
    /\ LET tool_calls_found == find_all_tool_calls(agent_response)
           repeats_executed ==
               \E i \in 1..Len(tool_calls_found) :
                  generate_tool_id(tool_calls_found[i])
                     \in Ledger(tool_executions)
           stall == StallDeclared(agent_response)
           msgs == IF stall /\ repeats_executed
                   THEN Append(messages,
                               Msg("user", <<"steer:already_executed_tool">>))
                   ELSE messages
           context == current_context \o agent_response \o <<NL>>
           candidates ==
               {i \in 1..Len(tool_calls_found) :
                   Executable(tool_calls_found[i], tool_executions,
                              device_info_executed, device_report_executed)}
       IN
       IF stall /\ ~repeats_executed
       THEN \* lines 219-221
            /\ Return("loop", loop_msg(current_context))
            /\ UNCHANGED <<messages, current_context, tool_executions,
                           last_response, device_info_executed,
                           device_report_executed, last_device_info,
                           exec_log, session_exec_log>>
       ELSE /\ last_response' = agent_response
            /\ IF ToolFirst(candidates, agent_response)
               THEN LET first == CHOOSE i \in candidates :
                                    \A j \in candidates : i <= j
                    IN  \E result \in execute_tool(tool_calls_found[first]) :
                           ExecuteRound(agent_response,
                                        tool_calls_found[first], result,
                                        msgs, context)
               ELSE NoToolRound(agent_response, tool_calls_found,
                                msgs, context)

----------------------------------------------------------------------------
(* SimpleReActAgent                                                        *)

\* self.max_steps, line 27
max_steps == 5

SIMPLE_SYSTEM_PROMPT == Msg("system", <<"SIMPLE_SYSTEM_PROMPT">>)
CONTINUE_OR_ANSWER == <<"steer:continue_thought_or_final_answer">>
MAX_STEPS_REACHED == <<"Max steps reached. Unable to complete the task.">>

\* line 131
bedrock_error(e) == <<"Error communicating with AWS Bedrock: ", e>>

\* SimpleReActAgent.parse_tool_call: the block whose JSON object is
\* returned, "" for None; each pattern is searched once and given up when
\* its first match does not load, and no "name" is asked for
SimpleReActAgent_parse_tool_call(response) ==
    LET Loads(b) == b # "" /\ Block(b).json = "ok"
        x == FirstBlock(response, "xml")
        m == FirstBlock(response, "md")
    IN  IF Loads(x) THEN x ELSE IF Loads(m) THEN m ELSE ""

SimpleRound(kind, run, query, sent, raised, text, call, executed, result) ==
    [kind |-> kind, run |-> run, query |-> query, sent |-> sent,
     raised |-> raised, text |-> text, call |-> call,
     executed |-> executed, result |-> result]

NoResult == Interpreted(Failure(""), <<>>)

SimpleRuns ==
    IF simple_log = <<>> THEN 0 ELSE simple_log[Len(simple_log)].run

UnchangedBySimple ==
    UNCHANGED <<conversation_history, last_device_info, max_iterations,
                messages, current_context, iterations, tool_executions,
                last_response, identical_response_count,
                device_info_executed, device_report_executed, pc, exit,
                returned, model_log, exec_log, query_log, session_exec_log,
                extract_log, main_pc, main_log>>

\* run(query) going on with the message list of the run before
SimpleRunKeepingMessages(query) ==
    /\ simple_pc # "run"
    /\ simple_messages' =
          IF simple_messages = <<>>
          THEN <<SIMPLE_SYSTEM_PROMPT, Msg("user", query)>>
          ELSE Append(simple_messages, Msg("user", query))
    /\ simple_step' = 0
    /\ simple_pc' = "run"
    /\ simple_returned' = <<>>
    /\ simple_log' =
          Append(simple_log,
                 SimpleRound("run", SimpleRuns + 1, query, <<>>, FALSE, <<>>,
                             NoToolCall, FALSE, NoResult))
    /\ UnchangedBySimple

\* lines 117-122: run(query) starts with a new message list
SimpleRun(query) ==
    /\ simple_pc # "run"
    /\ simple_messages' = <<SIMPLE_SYSTEM_PROMPT, Msg("user", query)>>
    /\ simple_step' = 0
    /\ simple_pc' = "run"
    /\ simple_returned' = <<>>
    /\ simple_log' =
          Append(simple_log,
                 SimpleRound("run", SimpleRuns + 1, query, <<>>, FALSE, <<>>,
                             NoToolCall, FALSE, NoResult))
    /\ UnchangedBySimple

\* the round about to be logged
ThisRound(raised, text, call, executed, result) ==
    SimpleRound("round", SimpleRuns, simple_messages[2].content,
                simple_messages, raised, text, call, executed, result)

SimpleEnds(how, text) ==
    /\ simple_pc' = how
    /\ simple_returned' = text
    /\ UNCHANGED simple_messages

\* lines 126-131: the model call raises and run returns the error text
SimpleModelRaises ==
    /\ simple_pc = "run"
    /\ simple_step < max_steps
    /\ simple_step' = simple_step + 1
    /\ simple_log' =
          Append(simple_log,
                 ThisRound(TRUE, <<>>, NoToolCall, FALSE, NoResult))
    /\ SimpleEnds("returned", bedrock_error("BackendError"))
    /\ UnchangedBySimple

\* the user turn appended without the output of the model
SimpleAppendedUserOnly(msgs, agent_output, turn) ==
    msgs \o <<Msg("user", turn)>>

\* lines 161-163 and 165-167: the output of the model and the user turn that
\* answers it
SimpleAppended(msgs, agent_output, turn) ==
    msgs \o <<Msg("assistant", agent_output), Msg("user", turn)>>

\* lines 124-167: one round in which the model call returns agent_output
\* and the request of the tool, if one is executed, ends as http
SimpleModelReturns(agent_output, http) ==
    LET block == SimpleReActAgent_parse_tool_call(agent_output)
        tool_call == ToolCall(block)
        Appended(turn) == SimpleAppended(simple_messages, agent_output, turn)
    IN
    /\ simple_pc = "run"
    /\ simple_step < max_steps
    /\ simple_step' = simple_step + 1
    /\ UnchangedBySimple
    /\ IF Contains(agent_output, FINAL)
       THEN \* lines 134-137
            /\ simple_log' =
                  Append(simple_log,
                         ThisRound(FALSE, agent_output, NoToolCall, FALSE,
                                   NoResult))
            /\ SimpleEnds("returned", final_answer(agent_output))
       ELSE IF block = ""
       THEN \* lines 164-167
            /\ simple_log' =
                  Append(simple_log,
                         ThisRound(FALSE, agent_output, NoToolCall, FALSE,
                                   NoResult))
            /\ simple_messages' = Appended(CONTINUE_OR_ANSWER)
            /\ UNCHANGED <<simple_pc, simple_returned>>
       ELSE IF ~Block(block).has_name
       THEN \* line 142: tool_call['name'] raises KeyError
            /\ simple_log' =
                  Append(simple_log,
                         ThisRound(FALSE, agent_output, NoToolCall, FALSE,
                                   NoResult))
            /\ SimpleEnds("raised", <<"KeyError">>)
       ELSE IF tool_call.args.shape = "scalar"
       THEN \* line 148: **arguments raises TypeError
            /\ simple_log' =
                  Append(simple_log,
                         ThisRound(FALSE, agent_output, tool_call, FALSE,
                                   NoResult))
            /\ SimpleEnds("raised", <<"TypeError">>)
       ELSE \E result \in EnhancedNormTools_execute_tool(
                              tool_call.name, Serialize(tool_call.args), http) :
               /\ simple_log' =
                     Append(simple_log,
                            ThisRound(FALSE, agent_output, tool_call, TRUE,
                                      result))
               /\ IF result.data = "raised"
                  THEN SimpleEnds("raised", <<result.error>>)
                  ELSE /\ simple_messages' =
                             Appended(SimpleObservation(tool_call.name,
                                                        result))
                       /\ UNCHANGED <<simple_pc, simple_returned>>

\* line 169: the for loop is over
SimpleMaxSteps ==
    /\ simple_pc = "run"
    /\ simple_step = max_steps
    /\ SimpleEnds("returned", MAX_STEPS_REACHED)
    /\ UNCHANGED <<simple_step, simple_log>>
    /\ UnchangedBySimple

----------------------------------------------------------------------------
(* Specification                                                           *)

\* ReActAgent.__init__, with max_iterations set to one of choices
Construct(choices) ==
    /\ conversation_history = <<>>
    /\ last_device_info = NoDeviceInfo
    /\ max_iterations \in choices
    /\ messages = <<>>
    /\ current_context = <<>>
    /\ iterations = 0
    /\ tool_executions = <<>>
    /\ last_response = <<>>
    /\ identical_response_count = 0
    /\ device_info_executed = FALSE
    /\ device_report_executed = FALSE
    /\ pc = "idle"
    /\ exit = "none"
    /\ returned = <<>>
    /\ model_log = <<>>
    /\ exec_log = <<>>
    /\ query_log = <<>>
    /\ session_exec_log = <<>>
    /\ extract_log = <<>>
    /\ main_pc = "prompt"
    /\ main_log = <<>>
    /\ simple_pc = "idle"
    /\ simple_messages = <<>>
    /\ simple_step = 0
    /\ simple_returned = <<>>
    /\ simple_log = <<>>

Init == Construct(1..MaxIterations)

\* the first query of a fresh agent
FirstQuery(user_query) == pc = "idle" /\ StartQuery(user_query)

Next ==
    \/ \E q \in Queries : FirstQuery(q)
    \/ ModelRaises
    \/ \E r \in Outputs : ModelReturns(r)
    \/ BudgetExhausted

Spec == Init /\ [][Next]_vars

\* line 30: the step budget a new agent has
DefaultIterations == 5

\* model outputs of the queries of an agent with the default budget
DefaultOutputs ==
    { <<"a">>,
      <<"b">>,
      <<"a", FINAL, WS, "b", WS>>,
      <<"a", "X:info_h1">>,
      <<"X:foo_ab">> }

InitDefault == Construct({DefaultIterations})

NextDefault ==
    \/ \E q \in Queries : FirstQuery(q)
    \/ ModelRaises
    \/ \E r \in DefaultOutputs : ModelReturns(r)
    \/ BudgetExhausted

\* one query to an agent as constructed
SpecDefault == InitDefault /\ [][NextDefault]_vars

\* test_agent.py, lines 26-30: the caller passes the next query to the same
\* agent once the previous call has returned, up to limit queries
NextQuery(user_query, limit) ==
    /\ pc \in {"idle", "done"}
    /\ Len(query_log) < limit
    /\ StartQuery(user_query)

\* a session of several queries to one agent
MaxQueries == 2
SessionIterations == 2

SessionOutputs ==
    { <<"X:foo_ab">>,
      <<FINAL, WS, "Detailed Report", "?", "b">>,
      <<FINAL, "detailed report">>,
      <<>> }

InitSession == Construct({SessionIterations})

NextSession ==
    \/ \E q \in Queries : NextQuery(q, MaxQueries)
    \/ ModelRaises
    \/ \E r \in SessionOutputs : ModelReturns(r)
    \/ BudgetExhausted

SpecSession == InitSession /\ [][NextSession]_vars

\* a long session of short queries: the history outgrows the window
MaxLongQueries == 6
LongIterations == 1

LongQueries == {<<"YES", WS>>}

LongOutputs ==
    { <<"a">>,
      <<FINAL, WS, "Detailed Report", "?">> }

InitLong == Construct({LongIterations})

NextLong ==
    \/ \E q \in LongQueries : NextQuery(q, MaxLongQueries)
    \/ ModelRaises
    \/ \E r \in LongOutputs : ModelReturns(r)
    \/ BudgetExhausted

SpecLong == InitLong /\ [][NextLong]_vars

\* one direct call of a method of ToolManager on a text of up to MaxBlocks
\* tokens or on the tool call of one of their blocks
MaxBlocks == 2

ExtractTokens ==
    {"a", "X:foo", "X:foo_empty", "M:foo_ba", "X:info_noargs",
     "X:info_empty", "X:invalid", "M:invalid", "X:unclosed", "M:unclosed",
     "X:noname"}

ExtractTexts ==
    UNION {[1..n -> ExtractTokens] : n \in 0..MaxBlocks}

ExtractCalls ==
    {ToolCall(b) : b \in {t \in ExtractTokens \cap BlockTokens :
                             Block(t).json = "ok" /\ Block(t).has_name}}

Extraction(method, text, call, calls, result) ==
    [method |-> method, text |-> text, call |-> call, calls |-> calls,
     result |-> result]

UnchangedAgent ==
    UNCHANGED <<conversation_history, last_device_info, max_iterations,
                messages, current_context, iterations, tool_executions,
                last_response, identical_response_count,
                device_info_executed, device_report_executed, pc, exit,
                returned, model_log, exec_log, query_log, session_exec_log,
                main_pc, main_log, simple_pc, simple_messages, simple_step,
                simple_returned, simple_log>>

FindAllToolCalls(response) ==
    /\ extract_log' =
          <<Extraction("find_all_tool_calls", response, NoToolCall,
                       find_all_tool_calls(response), Failure(""))>>
    /\ UnchangedAgent

ParseToolCall(response) ==
    /\ extract_log' =
          <<Extraction("parse_tool_call", response, NoToolCall,
                       <<parse_tool_call(response)>>, Failure(""))>>
    /\ UnchangedAgent

GenerateToolId(tool_call) ==
    /\ extract_log' =
          <<Extraction("generate_tool_id", <<>>, tool_call,
                       <<generate_tool_id(tool_call)>>, Failure(""))>>
    /\ UnchangedAgent

ExecuteTool(tool_call) ==
    /\ \E result \in execute_tool(tool_call) :
          extract_log' =
             <<Extraction("execute_tool", <<>>, tool_call, <<>>, result)>>
    /\ UnchangedAgent

NextExtract ==
    /\ extract_log = <<>>
    /\ \/ \E response \in ExtractTexts : FindAllToolCalls(response)
       \/ \E response \in ExtractTexts : ParseToolCall(response)
       \/ \E tool_call \in ExtractCalls : GenerateToolId(tool_call)
       \/ \E tool_call \in ExtractCalls : ExecuteTool(tool_call)

SpecExtract == Init /\ [][NextExtract]_vars

\* direct calls of the tools and of the two registries, followed by one
\* query of an agent that is answered with tool calls
ToolsIterations == 2

ToolsOutputs ==
    { <<"X:foo_ab">>, <<"X:report_other">>, <<"X:report_timos">>,
      <<FINAL, "a">> }

ToolNames == {GET_DEVICE_INFO, GET_DEVICE_REPORT, "foo", "None"}

Kwargs ==
    {Args("map", << <<"hostname", "h1">>, <<"tags", t>> >>) :
        t \in {"CE_COMWARE", "TIMOS_CORE", "CE_CORE"}}
      \cup {Args("map", << <<"hostname", "h1">> >>), Args("map", <<>>)}

ToolRun(method, tool_name, tags, http, requests, result, observation) ==
    [method |-> method, tool_name |-> tool_name, tags |-> tags,
     http |-> http, requests |-> requests, result |-> result,
     observation |-> observation]

\* NormTools.get_device_report called by ToolManager.execute_tool, and the
\* observation ReActAgent._execute_tool makes of the result
CallNormToolsReport(tags, http) ==
    /\ \E result \in NormTools_get_device_report("h1", tags, http) :
          extract_log' =
             <<ToolRun("NormTools.get_device_report", GET_DEVICE_REPORT,
                       tags, http, NormTools_requests(tags), result,
                       ExecuteToolObservation(Caught(result)))>>
    /\ UnchangedAgent

\* GetDeviceReport.execute called on its own
CallGetDeviceReport(tags, http) ==
    /\ \E result \in GetDeviceReport_execute("h1", tags, http) :
          extract_log' =
             <<ToolRun("GetDeviceReport.execute", GET_DEVICE_REPORT, tags,
                       http, GetDeviceReport_requests(tags), result,
                       Formatted(<<>>))>>
    /\ UnchangedAgent

\* EnhancedNormTools.execute_tool called by SimpleReActAgent.run, and the
\* observation turn run makes of the result
CallEnhancedTool(tool_name, kwargs, http) ==
    /\ \E result \in EnhancedNormTools_execute_tool(tool_name, kwargs, http) :
          extract_log' =
             <<ToolRun("EnhancedNormTools.execute_tool", tool_name,
                       KwargsGet(kwargs, "tags", "EMPTY"), http,
                       IF tool_name = GET_DEVICE_REPORT
                       THEN GetDeviceReport_requests(
                                KwargsGet(kwargs, "tags", "EMPTY"))
                       ELSE IF tool_name = GET_DEVICE_INFO THEN 1 ELSE 0,
                       result,
                       IF result.data = "raised" THEN Raises(result.error)
                       ELSE Formatted(SimpleObservation(tool_name, result)))>>
    /\ UnchangedAgent

\* the results ResponseFormatter.format_observation is called on directly,
\* by the shape of result["data"]
DataShapes ==
    {"report_comware", "report_comware_scalar", "report_timos",
     "report_timos_errors", "report_unknown", "search", "search_scalars",
     "list_empty", "list_dicts", "list_scalars", "dict_other", "scalar",
     "null"}

FormatInputs ==
    {Success(d) : d \in DataShapes}
       \cup {Failure(REQUEST_EXCEPTION), Failure(NO_SPECIFIC_REPORT)}

FormatObservation(result) ==
    /\ extract_log' =
          <<ToolRun("format_observation", "", "", "", 0, result,
                    format_observation(result))>>
    /\ UnchangedAgent

\* how the request to one endpoint of the TIMOS core report may end
EndpointHttp == {"200", "409", "unreachable"}

TimosRun(answers, entries, result) ==
    [method |-> "NormTools.get_device_report/timos_core",
     answers |-> answers, entries |-> entries, result |-> result]

\* NormTools.get_device_report called with TIMOS and CORE tags, the request
\* to each endpoint ending on its own
CallNormToolsTimos(answers) ==
    /\ extract_log' =
          <<TimosRun(answers, TimosEntries(answers),
                     TimosResult(TimosEntries(answers)))>>
    /\ UnchangedAgent

InitTools == Construct({ToolsIterations})

NextTools ==
    \/ \E q \in Queries : FirstQuery(q)
    \/ ModelRaises
    \/ \E r \in ToolsOutputs : ModelReturns(r)
    \/ BudgetExhausted
    \/ pc = "idle" /\ \E tool_call \in ExtractCalls : ExecuteTool(tool_call)
    \/ pc = "idle" /\ \E tags \in TagNames, http \in Http :
                        CallNormToolsReport(tags, http)
    \/ pc = "idle" /\ \E tags \in TagNames, http \in Http :
                        CallGetDeviceReport(tags, http)
    \/ pc = "idle" /\ \E tool_name \in ToolNames, kwargs \in Kwargs,
                           http \in Http :
                        CallEnhancedTool(tool_name, kwargs, http)
    \/ pc = "idle" /\ \E result \in FormatInputs : FormatObservation(result)
    \/ pc = "idle" /\ \E answers \in [Endpoints -> EndpointHttp] :
                        CallNormToolsTimos(answers)

SpecTools == InitTools /\ [][NextTools]_vars

\* main(): the prompt loop of lines 52-83 on up to MaxInputs rounds
MaxInputs == 3

\* what input() returns
Lines ==
    { <<"exit">>, <<WS, "QUIT", WS>>, <<"Q">>, <<"Exit", WS>>, <<>>,
      <<WS, WS>>, <<"exit", WS, "now">>, <<"show", WS, "h1">> }

ExitKeywords == {<<"exit">>, <<"quit">>, <<"q">>}

IsExitCaseSensitive(user_query) == user_query \in ExitKeywords

\* line 58
IsExit(user_query) == Lower(user_query) \in ExitKeywords

MainRound(kind, line, called, outcome) ==
    [kind |-> kind, line |-> line, called |-> called, outcome |-> outcome]

UnchangedByMain ==
    UNCHANGED <<conversation_history, last_device_info, max_iterations,
                messages, current_context, iterations, tool_executions,
                last_response, identical_response_count,
                device_info_executed, device_report_executed, pc, exit,
                returned, model_log, exec_log, query_log, session_exec_log,
                extract_log, simple_pc, simple_messages, simple_step,
                simple_returned, simple_log>>

\* one round of the loop in which input() returns line; process_query
\* returns, raises an exception or is interrupted from the keyboard
MainReads(line, outcome) ==
    LET user_query == Strip(line)
    IN
    /\ main_pc = "prompt"
    /\ Len(main_log) < MaxInputs
    /\ IF IsExit(user_query)
       THEN /\ main_log' =
                 Append(main_log, MainRound("line", line, FALSE, "break"))
            /\ main_pc' = "ended"
       ELSE IF user_query = <<>>
       THEN /\ main_log' =
                 Append(main_log, MainRound("line", line, FALSE, "continue"))
            /\ main_pc' = "prompt"
       ELSE /\ main_log' =
                 Append(main_log, MainRound("line", line, TRUE, outcome))
            /\ main_pc' =
                 IF outcome = "interrupted" THEN "ended" ELSE "prompt"
    /\ UnchangedByMain

\* a round in which input() raises: KeyboardInterrupt ends the loop at line
\* 73, EOFError is an Exception and is reported at line 76
MainInputRaises(exc) ==
    /\ main_pc = "prompt"
    /\ Len(main_log) < MaxInputs
    /\ main_log' =
          Append(main_log,
                 MainRound(exc, <<>>, FALSE,
                           IF exc = "KeyboardInterrupt" THEN "break"
                           ELSE "raised"))
    /\ main_pc' = IF exc = "KeyboardInterrupt" THEN "ended" ELSE "prompt"
    /\ UnchangedByMain

NextMain ==
    \/ \E line \in Lines, outcome \in {"returned", "raised", "interrupted"} :
          MainReads(line, outcome)
    \/ \E exc \in {"KeyboardInterrupt", "EOFError"} : MainInputRaises(exc)

SpecMain == Init /\ [][NextMain]_vars

\* one run of SimpleReActAgent
SimpleOutputs ==
    { <<"a">>,
      <<"a", FINAL, WS, "b", WS>>,
      <<"X:info_h1", FINAL, "a", FINAL, "b">>,
      <<"X:info_h1">>,
      <<"X:report_other">>,
      <<"X:foo_ab">>,
      <<"X:noname">>,
      <<"X:info_scalar">>,
      <<"X:invalid", "M:info_h1_id2">> }

SimpleFirstRun(query) == simple_pc = "idle" /\ SimpleRun(query)

NextSimple ==
    \/ \E q \in Queries : SimpleFirstRun(q)
    \/ SimpleModelRaises
    \/ \E r \in SimpleOutputs, http \in Http : SimpleModelReturns(r, http)
    \/ SimpleMaxSteps

SpecSimple == InitDefault /\ [][NextSimple]_vars

\* up to MaxRuns runs of one SimpleReActAgent, as main() makes them
MaxRuns == 2

SessionRunOutputs == { <<"X:info_h1">>, <<FINAL, "a">> }

NextRun(query) == SimpleRuns < MaxRuns /\ SimpleRun(query)

NextSimpleSession ==
    \/ \E q \in Queries : NextRun(q)
    \/ SimpleModelRaises
    \/ \E r \in SessionRunOutputs : SimpleModelReturns(r, "200")
    \/ SimpleMaxSteps

SpecSimpleSession == InitDefault /\ [][NextSimpleSession]_vars

\* one run of a SimpleReActAgent and then one query to a ReActAgent, the
\* model answering both from the same texts
PriorityIterations == 3

PriorityOutputs ==
    { <<"X:info_h1">>,
      <<FINAL, WS, "a", WS, "X:info_h2">>,
      <<FINAL, "a", "X:foo_ab">>,
      <<FINAL, "b">> }

InitPriority == Construct({PriorityIterations})

PriorityQuery(user_query) ==
    simple_pc \notin {"idle", "run"} /\ FirstQuery(user_query)

NextPriority ==
    \/ \E q \in Queries : SimpleFirstRun(q)
    \/ SimpleModelRaises
    \/ \E r \in PriorityOutputs : SimpleModelReturns(r, "200")
    \/ SimpleMaxSteps
    \/ \E q \in Queries : PriorityQuery(q)
    \/ ModelRaises
    \/ \E r \in PriorityOutputs : ModelReturns(r)
    \/ BudgetExhausted

SpecPriority == InitPriority /\ [][NextPriority]_vars

\* a device lookup, the offer of a report and the user's answer to it
FollowUpQueries == 3
FollowUpIterations == 2

FollowUpOutputs ==
    { <<"a", "X:info_h1">>,
      <<"X:info_h2">>,
      <<FINAL, WS, "Detailed Report", "?">> }

InitFollowUp == Construct({FollowUpIterations})

NextFollowUp ==
    \/ \E q \in Queries : NextQuery(q, FollowUpQueries)
    \/ ModelRaises
    \/ \E r \in FollowUpOutputs : ModelReturns(r)
    \/ BudgetExhausted

SpecFollowUp == InitFollowUp /\ [][NextFollowUp]_vars

----------------------------------------------------------------------------
(* Properties                                                              *)

\* s contains t as a contiguous piece
IsInfix(t, s) ==
    \E i \in 0..(Len(s) - Len(t)) :
        \A j \in 1..Len(t) : s[i + j] = t[j]

\* two argument values are equal as mappings: the order of the keys does not
\* count
SameMapping(a, b) ==
    /\ Serialize(a).shape = "map"
    /\ Serialize(b).shape = "map"
    /\ Items(a) = Items(b)

\* the tool calls find_all_tool_calls extracted from the output of round k
Extracted(k) ==
    LET calls == find_all_tool_calls(model_log[k].text)
    IN  {calls[i] : i \in 1..Len(calls)}

Rounds == 1..Len(model_log)
Executions == 1..Len(exec_log)

\* two tool calls with the same name and the same arguments, as mappings
SameCall(c, d) ==
    /\ c.name = d.name
    /\ \/ Serialize(c.args) = Serialize(d.args)
       \/ SameMapping(c.args, d.args)

\* two tool calls with the same name and the same printed arguments
SameSerializedCall(c, d) ==
    c.name = d.name /\ Serialize(c.args) = Serialize(d.args)

\* C1 as stated: two tool calls with the same name and the same argument
\* mapping are never both executed in one query.
C1_OncePerMapping ==
    \A i, j \in Executions :
        i < j => ~SameCall(exec_log[i].call, exec_log[j].call)

\* C1 (amended): within one process_query call, execute_tool is invoked at
\* most once for tool calls with the same name and the same serialized
\* arguments (same keys and values in the same key order; a missing
\* "arguments" counts as the empty mapping), whatever their "id" field and
\* wherever they appear.
C1_OncePerSerializedCall ==
    \A i, j \in Executions :
        i < j => ~SameSerializedCall(exec_log[i].call, exec_log[j].call)

\* the same call is extracted from two model outputs, with different "id"
\* fields, and has been executed
C1_Witness ==
    \E k, l \in Rounds :
        /\ k < l
        /\ \E c \in Extracted(k), d \in Extracted(l) :
              /\ SameSerializedCall(c, d)
              /\ c.id # d.id
              /\ \E e \in Executions : exec_log[e].call = c

\* C2: once get_device_report has executed successfully in a query, no
\* further tool is executed in that query: a successful get_device_report
\* is the last execution of the query.
C2_NoToolAfterReport ==
    \A i \in Executions :
        (exec_log[i].call.name = GET_DEVICE_REPORT /\ exec_log[i].result.success)
            => i = Len(exec_log)

\* after a successful get_device_report a later model output asks for a tool
\* call that is not in the ledger
C2_Witness ==
    \E i \in Executions :
        /\ exec_log[i].call.name = GET_DEVICE_REPORT
        /\ exec_log[i].result.success
        /\ \E k \in Rounds :
              /\ k > exec_log[i].round
              /\ \E c \in Extracted(k) :
                    generate_tool_id(c) \notin Ledger(tool_executions)

LastAssistantTurnIs(text) ==
    /\ conversation_history # <<>>
    /\ conversation_history[Len(conversation_history)] = Msg("assistant", text)

\* the observation line 249 builds for an execution (when the formatter
\* returned)
ObservationText(e) ==
    <<OBSERVATION, WS>> \o ExecuteToolObservation(exec_log[e].result).text

\* C3: with max_iterations = N, if the backend never fails, no model output
\* contains "Final Answer:" and no stall is declared, the query makes exactly
\* N model calls and returns the non-empty step-budget message, which
\* contains every model output and every observation and is the assistant
\* turn appended to the history.
C3_StepBudget ==
    ( /\ pc = "done"
      /\ \A k \in Rounds :
            /\ ~model_log[k].raised
            /\ ~Contains(model_log[k].text, FINAL)
            /\ ~model_log[k].stall )
    => /\ Len(model_log) = max_iterations
       /\ exit = "budget"
       /\ returned # <<>>
       /\ \A k \in Rounds : IsInfix(model_log[k].text, returned)
       /\ \A e \in Executions :
             ~ExecuteToolObservation(exec_log[e].result).raises
                => IsInfix(ObservationText(e), returned)
       /\ LastAssistantTurnIs(returned)

\* C4: when no tool has been executed in the query and the model produces
\* two consecutive identical outputs, the second of them short of the step
\* budget, the query terminates at the second of them with the non-empty
\* fallback answer of the stall exit.
C4_StallAtSecond ==
    \A k \in Rounds :
        ( /\ k >= 2
          /\ k < max_iterations
          /\ ~model_log[k].raised
          /\ ~model_log[k - 1].raised
          /\ model_log[k].text = model_log[k - 1].text
          /\ \A e \in Executions : exec_log[e].round > k )
        => /\ k = Len(model_log)
           /\ pc = "done"
           /\ exit = "loop"
           /\ returned # <<>>
           /\ LastAssistantTurnIs(returned)

\* C5: when the model call raises in round k, the query ends there: no later
\* model call, no tool execution in or after round k, and the error message
\* is returned and is the one assistant turn appended to the history.
C5_BackendFailureFatal ==
    \A k \in Rounds :
        model_log[k].raised
        => /\ k = Len(model_log)
           /\ \A e \in Executions : exec_log[e].round < k
           /\ pc = "done"
           /\ exit = "error"
           /\ returned = error_msg("BackendError")
           /\ LastAssistantTurnIs(returned)
           /\ Len(conversation_history) >= 2
           /\ conversation_history[Len(conversation_history) - 1].role = "user"

\* the backend fails after at least one round with a tool execution
C5_Witness ==
    /\ Len(model_log) >= 2
    /\ model_log[Len(model_log)].raised
    /\ exec_log # <<>>
    /\ pc = "done"

\* C6: process_query returns the error message of the except branch only
\* when the model call of the round raised.
C6_OnlyBackendFailureIsFatal ==
    exit = "error" => model_log[Len(model_log)].raised

\* C7: when an executed tool returns success = false the query does not end
\* in that round (short of the step budget), the call is in the ledger and a
\* user turn "Observation: Tool execution failed: ..." is in the message
\* list.
C7_ToolFailureRecoverable ==
    \A e \in Executions :
        ~exec_log[e].result.success
        => /\ (pc = "done" /\ Len(model_log) = exec_log[e].round)
                 => exit = "budget"
           /\ generate_tool_id(exec_log[e].call) \in Ledger(tool_executions)
           /\ \E m \in 1..Len(messages) :
                 /\ messages[m].role = "user"
                 /\ IsInfix(<<OBSERVATION, WS, "Tool execution failed: ",
                              exec_log[e].result.error>>,
                            messages[m].content)

\* C8: process_query returns a non-empty text on every path.
C8_NonEmptyResponse ==
    pc = "done" => returned # <<>>

\* C9: the query makes at most max_iterations model calls and at most
\* max_iterations tool executions, and, every model call and tool call
\* returning, it ends.
C9_Terminates ==
    /\ [](Len(model_log) <= max_iterations /\ Len(exec_log) <= max_iterations)
    /\ (pc = "loop" ~> pc = "done")

\* the budget is used up by rounds that each execute a tool or inject a
\* steering message
C9_Witness ==
    /\ pc = "done"
    /\ exit = "budget"
    /\ Len(model_log) = max_iterations
    /\ max_iterations >= 3
    /\ Len(exec_log) >= 2
    /\ \E m \in 1..Len(messages) :
          messages[m].content = <<"steer:all_tools_executed">>

\* t is text with the whitespace around it removed, text being what follows
\* the first "Final Answer:" of s
IsTrimmedTail(t, s) ==
    \E i \in 1..Len(s) :
        /\ s[i] = FINAL
        /\ \A j \in 1..(i - 1) : s[j] # FINAL
        /\ \E a \in (i + 1)..(Len(s) + 1), b \in i..Len(s) :
              /\ \A j \in (i + 1)..(a - 1) : s[j] \in Whitespace
              /\ \A j \in (b + 1)..Len(s) : s[j] \in Whitespace
              /\ Len(t) = b - a + 1
              /\ \A j \in 1..Len(t) : t[j] = s[a + j - 1]
              /\ t # <<>> => (t[1] \notin Whitespace
                              /\ t[Len(t)] \notin Whitespace)
              /\ t = <<>> => a = b + 1

\* C10: in a round where no tool is executed and the extracted tool calls
\* are not all in the ledger (or there is none), a model output containing
\* "Final Answer:" ends the query: the text after the first marker, trimmed,
\* is returned and is the assistant turn appended to the history.
C10_FinalAnswer ==
    LET k == Len(model_log)
    IN  ( /\ k >= 1
          /\ ~model_log[k].raised
          /\ Contains(model_log[k].text, FINAL)
          /\ \A e \in Executions : exec_log[e].round # k
          /\ ~( /\ Extracted(k) # {}
                /\ \A c \in Extracted(k) :
                      generate_tool_id(c) \in Ledger(tool_executions) ) )
        => /\ pc = "done"
           /\ exit = "final"
           /\ IsTrimmedTail(returned, model_log[k].text)
           /\ LastAssistantTurnIs(returned)

\* a final answer is taken from an output that has text and a refused tool
\* call before the marker, or a second marker after it
C10_Witness ==
    /\ exit = "final"
    /\ returned # <<>>
    /\ LET out == model_log[Len(model_log)].text
       IN  \/ Extracted(Len(model_log)) # {}
           \/ \E i, j \in 1..Len(out) : i < j /\ out[i] = FINAL /\ out[j] = FINAL

\* C11: a round in which a tool is executed never ends the query, whatever
\* else the output holds; it appends to the message list exactly two
\* messages, the raw model output as an assistant turn and then a user turn
\* carrying the observation; and the loop goes on to the next model call.
C11_ToolRoundContinues ==
    [][Len(exec_log') = Len(exec_log) + 1
       => LET e == exec_log'[Len(exec_log')]
              n == Len(messages)
          IN  /\ pc' = "loop"
              /\ Len(messages') = n + 2
              /\ messages'[n + 1] =
                    Msg("assistant", model_log'[Len(model_log')].text)
              /\ messages'[n + 2].role = "user"
              /\ IsInfix(<<OBSERVATION, WS>>
                            \o ExecuteToolObservation(e.result).text,
                         messages'[n + 2].content)]_vars

\* C11 without the error exits of C6: the round keeps the query going and
\* appends the two turns, after the steering message of a declared stall
C11_ToolRoundContinuesUnlessRaised ==
    [][(/\ Len(exec_log') = Len(exec_log) + 1
        /\ exit' # "error")
       => LET e == exec_log'[Len(exec_log')]
              n == Len(messages')
          IN  /\ pc' = "loop"
              /\ Len(messages') \in {Len(messages) + 2, Len(messages) + 3}
              /\ messages'[n - 1] =
                    Msg("assistant", model_log'[Len(model_log')].text)
              /\ messages'[n].role = "user"
              /\ IsInfix(<<OBSERVATION, WS>>
                            \o ExecuteToolObservation(e.result).text,
                         messages'[n].content)]_vars


\* the tool calls of output k were all in the ledger when the round began,
\* and there is at least one
AllInLedger(k) ==
    /\ Extracted(k) # {}
    /\ \A c \in Extracted(k) :
          \E e \in Executions :
             /\ exec_log[e].round < k
             /\ generate_tool_id(exec_log[e].call) = generate_tool_id(c)

\* C12: a round whose output contains at least one tool call, all of them
\* already in the ledger, executes no tool, does not end the query (a
\* "Final Answer:" in the output is not looked at) and appends a steering
\* user message chosen by the flags: report first, then info, then generic.
C12_AllExecutedSteers ==
    LET k == Len(model_log)
    IN  (/\ k >= 1
         /\ ~model_log[k].raised
         /\ AllInLedger(k))
        => /\ \A e \in Executions : exec_log[e].round # k
           /\ pc = "done" => exit = "budget"
           /\ messages[Len(messages)] =
                 Msg("user",
                     IF \E e \in Executions :
                           exec_log[e].call.name = GET_DEVICE_REPORT
                     THEN <<"steer:already_executed_report">>
                     ELSE IF \E e \in Executions :
                                exec_log[e].call.name = GET_DEVICE_INFO
                     THEN <<"steer:already_executed_info">>
                     ELSE <<"steer:all_tools_executed">>)
           /\ ~LastAssistantTurnIs(final_answer(model_log[k].text))

\* C12 happens: after get_device_info has run, a later output repeats the
\* executed call next to a "Final Answer:" and the loop goes on
C12_Witness ==
    LET k == Len(model_log)
    IN  /\ k >= 2
        /\ ~model_log[k].raised
        /\ AllInLedger(k)
        /\ Contains(model_log[k].text, FINAL)
        /\ pc = "loop"
        /\ device_info_executed


\* the ledger held a tool call of output k when round k began
RepeatsExecuted(k) ==
    \E c \in Extracted(k) :
       \E e \in Executions :
          /\ exec_log[e].round < k
          /\ generate_tool_id(exec_log[e].call) = generate_tool_id(c)

\* C13: a stall declared on an output that contains a tool call already in
\* the ledger does not end the query as a reasoning loop: the steering
\* message asking for the Final Answer is appended and the query goes on
\* to another exit: a final answer, a backend error or the step budget.
C13_StallAfterToolSteers ==
    \A k \in Rounds :
        (/\ ~model_log[k].raised
         /\ model_log[k].stall
         /\ RepeatsExecuted(k))
        => /\ \E m \in 1..Len(messages) :
                 messages[m] = Msg("user", <<"steer:already_executed_tool">>)
           /\ pc = "done"
                 => \/ exit \in {"final", "budget"}
                    \/ /\ exit = "error"
                       /\ model_log[Len(model_log)].raised

\* C13 without the exits it lists: the stall round itself is not ended as a
\* reasoning loop and the steering message is appended
C13_StallAfterToolNotLoopExit ==
    \A k \in Rounds :
        (/\ ~model_log[k].raised
         /\ model_log[k].stall
         /\ RepeatsExecuted(k))
        => /\ \E m \in 1..Len(messages) :
                 messages[m] = Msg("user", <<"steer:already_executed_tool">>)
           /\ (pc = "done" /\ Len(model_log) = k) => exit # "loop"


\* C14: the query ends with the "stuck in a reasoning loop" answer only when
\* no tool has been executed in it, that is with an empty ledger.
C14_LoopExitOnlyWithEmptyLedger ==
    (pc = "done" /\ exit = "loop")
    => /\ tool_executions = <<>>
       /\ exec_log = <<>>


\* C15: every process_query call starts with an empty ledger, both flags
\* false, the round counter at 0 and the last output and the context empty,
\* so that a tool call executed in one query can be executed again in the
\* next; and the call keeps every entry the earlier queries put into
\* conversation_history.
C15_StateResetHistoryKept ==
    /\ [](\/ ~(pc = "loop" /\ model_log = <<>>)
          \/ /\ tool_executions = <<>>
             /\ ~device_info_executed
             /\ ~device_report_executed
             /\ iterations = 0
             /\ identical_response_count = 0
             /\ last_response = <<>>
             /\ current_context = <<>>)
    /\ [][query_log' # query_log
          => /\ Len(conversation_history') > Len(conversation_history)
             /\ SubSeq(conversation_history', 1, Len(conversation_history))
                   = conversation_history]_vars

\* C15 happens: the second query executes the tool call the first query
\* has executed, and the entries of the first query are in the history
C15_Witness ==
    /\ Len(query_log) = 2
    /\ Len(conversation_history) >= 3
    /\ \E i, j \in 1..Len(session_exec_log) :
          /\ session_exec_log[i].query = 1
          /\ session_exec_log[j].query = 2
          /\ generate_tool_id(session_exec_log[i].call)
                = generate_tool_id(session_exec_log[j].call)


\* C16: conversation_history is append-only and every process_query call,
\* whatever its exit, adds exactly two entries to it: the user query and
\* then one assistant entry equal to the returned text.  After k queries it
\* has 2k entries, user and assistant in turn, the user entries being the
\* queries: no observation turn and no steering message gets into it.
C16_HistoryTwoPerQuery ==
    /\ [](LET h == conversation_history
              k == Len(query_log)
          IN  /\ Len(h) = IF pc = "loop" THEN 2 * k - 1 ELSE 2 * k
              /\ \A i \in 1..Len(h) :
                    IF i % 2 = 1
                    THEN h[i] = Msg("user", query_log[(i + 1) \div 2])
                    ELSE h[i].role = "assistant"
              /\ pc = "done" => h[Len(h)] = Msg("assistant", returned))
    /\ [][/\ Len(conversation_history') >= Len(conversation_history)
          /\ SubSeq(conversation_history', 1, Len(conversation_history))
                = conversation_history
          /\ (pc = "loop" /\ pc' = "done")
                => conversation_history' =
                      Append(conversation_history,
                             Msg("assistant", returned'))]_vars

\* C16 happens: two queries have returned, the first by the step budget and
\* the second by the stall exit, and the history has four entries
C16_Witness ==
    /\ Len(query_log) = 2
    /\ pc = "done"
    /\ exit = "loop"
    /\ Len(conversation_history) = 4
    /\ conversation_history[2].content[1]
          = "I've reached the maximum number of reasoning steps."
    /\ Contains(conversation_history[2].content, OBSERVATION)


\* the message list is the system message, the last n entries of the
\* history and extra further messages
WindowOf(n, extra) ==
    LET h == conversation_history
    IN  /\ Len(messages) = 1 + n + extra
        /\ messages[1].role = "system"
        /\ \A i \in 1..n : messages[1 + i] = h[Len(h) - n + i]

\* C17: at the first model call of a query the message list is one system
\* message, then the most recent min(10, length) entries of
\* conversation_history in their order, the last being the user query, then
\* at most one synthetic affirmation message; all through the query the
\* system message is first and is the only message of role system.
C17_FirstCallWindow ==
    /\ (pc = "loop" /\ model_log = <<>>)
       => LET h == conversation_history
              n == IF Len(h) < 10 THEN Len(h) ELSE 10
          IN  /\ n >= 1
              /\ h[Len(h)] = Msg("user", query_log[Len(query_log)])
              /\ \/ WindowOf(n, 0)
                 \/ /\ WindowOf(n, 1)
                    /\ messages[Len(messages)].role = "user"
                    /\ \E i \in 1..Len(messages[Len(messages)].content) :
                          messages[Len(messages)].content[i]
                             \in {"steer:confirmed_report",
                                  "steer:confirmed_report_for"}
    /\ pc # "idle"
       => /\ messages[1] = Msg("system", <<"SYSTEM_PROMPT">>)
          /\ \A i \in 2..Len(messages) : messages[i].role # "system"

\* C17 happens: a query starts with more than ten entries in the history
\* and the affirmation message after the window
C17_Witness ==
    /\ pc = "loop"
    /\ model_log = <<>>
    /\ Len(conversation_history) > 10
    /\ Len(messages) = 12
    /\ messages[2].role = "assistant"


\* the query is being started: process_query is before its first model call
AtFirstCall == pc = "loop" /\ model_log = <<>>

\* the messages appended after the system message and the history window
SyntheticCount ==
    LET n == IF Len(conversation_history) < 10
             THEN Len(conversation_history) ELSE 10
    IN  Len(messages) - 1 - n

\* the query, lower-cased and trimmed, is an affirmation
IsAffirmation(user_query) ==
    \E w \in {"yes", "y", "sure", "ok", "okay", "yep", "yeah"} :
       Strip(Lower(user_query)) = <<w>>

Mentions(content) == Contains(Lower(content), "detailed report")

InfoExecutions ==
    {i \in 1..Len(session_exec_log) :
        session_exec_log[i].call.name = GET_DEVICE_INFO}

\* C19: when the affirmation shortcut fires, the synthetic message names the
\* hostname argument of the most recently executed get_device_info call of
\* the agent, whether that call succeeded or not; when the agent has never
\* executed get_device_info, the message is the generic one without a
\* hostname.
C19_ShortcutNamesLastLookup ==
    (AtFirstCall /\ SyntheticCount = 1)
    => LET said == messages[Len(messages)].content
           user_query == query_log[Len(query_log)]
       IN  IF InfoExecutions = {}
           THEN said = user_query \o <<"steer:confirmed_report">>
           ELSE LET last == CHOOSE i \in InfoExecutions :
                               \A j \in InfoExecutions : j <= i
                IN  said = user_query
                           \o <<"steer:confirmed_report_for",
                                ValueOf(session_exec_log[last].call.args,
                                        "hostname")>>


\* C19 without the error exits of C6: the message names the hostname of the
\* latest get_device_info execution whose round went on to line 257, and is
\* the generic one when there is none
C19_ShortcutNamesLastRecordedLookup ==
    (AtFirstCall /\ SyntheticCount = 1)
    => LET said == messages[Len(messages)].content
           user_query == query_log[Len(query_log)]
           recorded ==
               {i \in InfoExecutions :
                   /\ ~ExecuteToolObservation(session_exec_log[i].result).raises
                   /\ session_exec_log[i].call.args.shape # "scalar"}
       IN  IF recorded = {}
           THEN said = user_query \o <<"steer:confirmed_report">>
           ELSE LET last == CHOOSE i \in recorded :
                               \A j \in recorded : j <= i
                IN  said = user_query
                           \o <<"steer:confirmed_report_for",
                                ValueOf(session_exec_log[last].call.args,
                                        "hostname")>>

\* the shortcut names the hostname of a lookup that failed
C19_FailedLookupNamed ==
    /\ AtFirstCall
    /\ SyntheticCount = 1
    /\ Len(session_exec_log) = 1
    /\ session_exec_log[1].call.name = GET_DEVICE_INFO
    /\ ~session_exec_log[1].result.success
    /\ messages[Len(messages)].content[Len(messages[Len(messages)].content)]
          = "h2"


\* C20 as stated: get_device_info and get_device_report are both terminal:
\* once either has been executed in a query, no further tool is executed in
\* that query.
C20_BothToolsTerminal ==
    \A i \in Executions :
        exec_log[i].call.name \in {GET_DEVICE_INFO, GET_DEVICE_REPORT}
            => i = Len(exec_log)

\* C20 amended: get_device_report is terminal, whether it succeeded or not:
\* it is the last execution of its query; get_device_info is executed at
\* most once in a query, and other tools, get_device_report among them, can
\* still be executed after it.
C20_ReportTerminalInfoOnce ==
    \A i, j \in Executions :
        i < j => /\ exec_log[i].call.name # GET_DEVICE_REPORT
                 /\ ~(/\ exec_log[i].call.name = GET_DEVICE_INFO
                      /\ exec_log[j].call.name = GET_DEVICE_INFO)

\* C20 happens: get_device_report is executed in the query after
\* get_device_info, and a later output asks for another get_device_info
C20_Witness ==
    /\ Len(exec_log) = 2
    /\ exec_log[1].call.name = GET_DEVICE_INFO
    /\ exec_log[2].call.name = GET_DEVICE_REPORT
    /\ ~exec_log[2].result.success
    /\ Len(model_log) = 3
    /\ \E c \in Extracted(3) :
          /\ c.name = GET_DEVICE_INFO
          /\ generate_tool_id(c) \notin Ledger(tool_executions)


\* C21: get_device_info is one-shot: it is executed at most once in a
\* process_query call, also when a later output asks for it with another
\* hostname, which is another identity for the ledger.
C21_InfoAtMostOnce ==
    Cardinality({e \in Executions :
                    exec_log[e].call.name = GET_DEVICE_INFO}) <= 1

\* C21 happens: get_device_info has been executed for one hostname, a later
\* output asks for it with another hostname, and the loop goes on
C21_Witness ==
    /\ pc = "loop"
    /\ ~device_report_executed
    /\ \E e \in Executions, k \in Rounds :
          /\ exec_log[e].call.name = GET_DEVICE_INFO
          /\ exec_log[e].round < k
          /\ \E c \in Extracted(k) :
                /\ c.name = GET_DEVICE_INFO
                /\ generate_tool_id(c) \notin Ledger(tool_executions)
                /\ "hostname" \in Keys(c.args)
                /\ ValueOf(c.args, "hostname")
                      # ValueOf(exec_log[e].call.args, "hostname")


\* the direct calls of a method of ToolManager
Extractions(method) ==
    {i \in 1..Len(extract_log) : extract_log[i].method = method}

\* tok is a block that parses and has a "name"
WellFormed(tok) ==
    /\ tok \in BlockTokens
    /\ Block(tok).json = "ok"
    /\ Block(tok).has_name

\* tok is a block json.loads rejects
Malformed(tok) ==
    /\ tok \in BlockTokens
    /\ Block(tok).json \in {"invalid", "unclosed"}

\* calls are tool calls of blocks of the text, in the order of the blocks
InTextualOrder(calls, text) ==
    \E f \in [1..Len(calls) -> 1..Len(text)] :
       /\ \A i, j \in 1..Len(calls) : i < j => f[i] < f[j]
       /\ \A i \in 1..Len(calls) :
             /\ WellFormed(text[f[i]])
             /\ ToolCall(text[f[i]]) = calls[i]

\* C22: find_all_tool_calls returns the tool calls of a text in the order
\* in which their blocks appear in the text, for any mix of the two
\* syntaxes.
C22_TextualOrder ==
    \A i \in Extractions("find_all_tool_calls") :
        InTextualOrder(extract_log[i].calls, extract_log[i].text)

\* C23: for a text with one well-formed block and one malformed block, in
\* either order and either syntax, find_all_tool_calls returns exactly the
\* tool call of the well-formed block.
C23_MalformedBlockSkipped ==
    \A i \in Extractions("find_all_tool_calls") :
        LET text == extract_log[i].text
        IN  \A g, b \in 1..Len(text) :
               (Len(text) = 2 /\ WellFormed(text[g]) /\ Malformed(text[b]))
               => extract_log[i].calls = <<ToolCall(text[g])>>

\* C23 for malformed blocks that have their closing brace
C23_InvalidBlockSkipped ==
    \A i \in Extractions("find_all_tool_calls") :
        LET text == extract_log[i].text
        IN  \A g, b \in 1..Len(text) :
               (/\ Len(text) = 2
                /\ WellFormed(text[g])
                /\ text[b] \in BlockTokens
                /\ Block(text[b]).json = "invalid")
               => extract_log[i].calls = <<ToolCall(text[g])>>

\* C24: find_all_tool_calls and parse_tool_call only return objects that
\* have a "name"; execute_tool and generate_tool_id treat a call without
\* "arguments" like the same call with the empty mapping as arguments.
C24_NameRequiredArgumentsOptional ==
    LET WithEmpty(c) == [c EXCEPT !.args = Args("map", <<>>)]
    IN  /\ \A i \in Extractions("find_all_tool_calls")
                    \cup Extractions("parse_tool_call") :
              \A k \in 1..Len(extract_log[i].calls) :
                 \/ extract_log[i].calls[k] = NoToolCall
                 \/ \E t \in 1..Len(extract_log[i].text) :
                       /\ WellFormed(extract_log[i].text[t])
                       /\ ToolCall(extract_log[i].text[t])
                             = extract_log[i].calls[k]
        /\ \A i \in Extractions("generate_tool_id") :
              extract_log[i].call.args.shape = "missing"
              => extract_log[i].calls
                    = <<generate_tool_id(WithEmpty(extract_log[i].call))>>
        /\ \A i \in Extractions("execute_tool") :
              extract_log[i].call.args.shape = "missing"
              => extract_log[i].result
                    \in execute_tool(WithEmpty(extract_log[i].call))

\* C24 happens: the identity of a call without "arguments" is computed
C24_Witness ==
    \E i \in Extractions("generate_tool_id") :
       /\ extract_log[i].call.args.shape = "missing"
       /\ extract_log[i].call.name = GET_DEVICE_INFO

\* C25: parse_tool_call returns the first element of find_all_tool_calls,
\* and None exactly when find_all_tool_calls returns the empty list.
C25_ParseIsFirstOfAll ==
    \A i \in Extractions("parse_tool_call") :
        LET all == find_all_tool_calls(extract_log[i].text)
        IN  extract_log[i].calls =
               <<IF all = <<>> THEN NoToolCall ELSE all[1]>>


ToolRuns(method) ==
    {extract_log[i] : i \in {j \in 1..Len(extract_log) :
                                 extract_log[j].method = method}}

UnknownName(name) == name \notin {GET_DEVICE_INFO, GET_DEVICE_REPORT}

UnknownToolFailure(result) ==
    /\ ~result.success
    /\ result.data # "raised"
    /\ result.error = "Unknown tool"

\* C26: executing a tool name that is in neither registry returns a failure
\* result with the "unknown tool" error from ToolManager.execute_tool and
\* from EnhancedNormTools.execute_tool and raises nothing; when ReActAgent
\* executes such a call, its identifier is added to the ledger, the user
\* turn added is "Observation: " and the observation without any steering
\* text, and neither terminal flag changes
C26_UnknownToolRecoverable ==
    [][/\ \A x \in ToolRuns("execute_tool")' :
             UnknownName(x.call.name) => UnknownToolFailure(x.result)
       /\ \A x \in ToolRuns("EnhancedNormTools.execute_tool")' :
             UnknownName(x.tool_name)
                => UnknownToolFailure(x.result) /\ ~x.observation.raises
       /\ (/\ Len(exec_log') = Len(exec_log) + 1
           /\ UnknownName(exec_log'[Len(exec_log')].call.name))
          => LET e == exec_log'[Len(exec_log')]
             IN  /\ UnknownToolFailure(e.result)
                 /\ pc' = "loop"
                 /\ generate_tool_id(e.call) \in Ledger(tool_executions')
                 /\ messages'[Len(messages')] =
                       Msg("user", <<OBSERVATION, WS,
                                     "Tool execution failed: ",
                                     "Unknown tool">>)
                 /\ device_info_executed' = device_info_executed
                 /\ device_report_executed' = device_report_executed]_vars

\* an unknown tool was executed by the agent after the enhanced registry
\* was asked for an unknown tool
C26_Witness ==
    /\ \E x \in ToolRuns("EnhancedNormTools.execute_tool") :
          x.tool_name = "foo" /\ UnknownToolFailure(x.result)
    /\ \E e \in Executions :
          /\ exec_log[e].call.name = "foo"
          /\ generate_tool_id(exec_log[e].call) \in Ledger(tool_executions)
    /\ ~device_info_executed /\ ~device_report_executed

\* the runs of get_device_report, through either implementation
ReportRuns ==
    ToolRuns("NormTools.get_device_report")
       \cup ToolRuns("GetDeviceReport.execute")
       \cup {x \in ToolRuns("EnhancedNormTools.execute_tool") :
                x.tool_name = GET_DEVICE_REPORT}

NamesTagSets(error) == error \in {UNKNOWN_DEVICE_TYPE, DEVICE_TYPE_MISMATCH}

\* C27: get_device_report called with tags that hold, in any case, neither
\* CE and COMWARE nor TIMOS and CORE sends no HTTP request and returns a
\* failure result, raising nothing, whose error text names the accepted tag
\* sets ['TIMOS','CORE'] and ['CE','COMWARE']; the observation handed to
\* the model holds that error text
C27_UnrecognizedTagsNameAccepted ==
    \A x \in ReportRuns :
       ReportKind(x.tags) = "none"
          => /\ x.requests = 0
             /\ ~x.result.success
             /\ x.result.data # "raised"
             /\ NamesTagSets(x.result.error)
             /\ x.method # "GetDeviceReport.execute"
                   => /\ ~x.observation.raises
                      /\ Contains(x.observation.text, x.result.error)

\* C28: when the report endpoint answers 409, get_device_report returns a
\* failure result whose error text states the device-type mismatch and
\* advises the other tag set; when it answers 404 or another HTTP error,
\* the result is a failure as well, never success and never an exception
C28_HttpErrorsAreFailures ==
    \A x \in ReportRuns :
       (ReportKind(x.tags) # "none" /\ x.http \in {"409", "404", "500"})
          => /\ ~x.result.success
             /\ x.result.data # "raised"
             /\ x.http = "409" => x.result.error = DEVICE_TYPE_MISMATCH

\* C29: format_observation raises nothing: it renders the error of a
\* failure result and returns a text for a success result whose data has
\* any shape
C29_FormatterNeverRaises ==
    \A x \in ToolRuns("format_observation") :
       /\ ~x.observation.raises
       /\ ~x.result.success
             => x.observation.text =
                   <<"Failed to retrieve data: ", x.result.error>>

MainRounds == 1..Len(main_log)

\* C30: the prompt loop of main() never calls the agent for a line that is,
\* trimmed and in lower case, exit, quit or q, and that round is the last
\* of the loop; it never calls the agent for a blank line and the loop goes
\* on; after a round in which process_query raised an exception the loop
\* is still at the prompt
C30_PromptLoop ==
    /\ \A i \in MainRounds :
          LET r == main_log[i]
              trimmed == Strip(r.line)
          IN  r.kind = "line"
                 => /\ Lower(trimmed) \in {<<"exit">>, <<"quit">>, <<"q">>}
                          => /\ ~r.called
                             /\ i = Len(main_log)
                             /\ main_pc = "ended"
                    /\ trimmed = <<>>
                          => /\ ~r.called
                             /\ i = Len(main_log) => main_pc = "prompt"
                    /\ (r.called /\ r.outcome = "raised")
                          => (i = Len(main_log) => main_pc = "prompt")
    /\ main_pc = "ended"
          => /\ main_log # <<>>
             /\ main_log[Len(main_log)].outcome \in {"break", "interrupted"}

\* the loop read a blank line, then a query on which process_query raised,
\* then QUIT between blanks, which ended it
C30_Witness ==
    /\ Len(main_log) = 3
    /\ Strip(main_log[1].line) = <<>>
    /\ main_log[2].called /\ main_log[2].outcome = "raised"
    /\ main_log[3].line = <<WS, "QUIT", WS>>
    /\ ~main_log[3].called
    /\ main_pc = "ended"

FailedObservation(error) ==
    <<OBSERVATION, WS, "Tool execution failed: ", error>>

\* the last execution of the round just taken, when the round executed a
\* tool whose result is a failure
FailedNow(name) ==
    /\ Len(exec_log') = Len(exec_log) + 1
    /\ exec_log'[Len(exec_log')].call.name = name
    /\ ~exec_log'[Len(exec_log')].result.success

FailedExecutionRound(calls) ==
    /\ \A e \in 1..Len(exec_log') :
          (/\ exec_log'[e].call.name = GET_DEVICE_REPORT
           /\ ~exec_log'[e].result.success)
             => e = Len(exec_log')
    /\ \A e \in 1..Len(exec_log') : \A f \in 1..Len(exec_log') :
          (/\ e < f
           /\ exec_log'[e].call.name = GET_DEVICE_INFO
           /\ ~exec_log'[e].result.success)
             => exec_log'[f].call.name # GET_DEVICE_INFO
    /\ FailedNow(GET_DEVICE_REPORT)
          => /\ device_report_executed'
             /\ generate_tool_id(exec_log'[Len(exec_log')].call)
                   \in Ledger(tool_executions')
    /\ (FailedNow(GET_DEVICE_INFO)
          /\ exec_log'[Len(exec_log')].call \in calls)
          => LET e == exec_log'[Len(exec_log')]
             IN  /\ device_info_executed'
                 /\ generate_tool_id(e.call) \in Ledger(tool_executions')
                 /\ last_device_info'.set
                 /\ last_device_info'.observation =
                       FailedObservation(e.result.error)

AllCalls == {ToolCall(b) : b \in {t \in BlockTokens : Block(t).has_name}}

\* C31: the terminal flags and the ledger are set when a tool is executed,
\* whatever its result: after an execution of get_device_report that
\* returned a failure no further tool is executed in the query, after an
\* execution of get_device_info that returned a failure no further
\* get_device_info is executed in the query, and the failed
\* get_device_info overwrites last_device_info with its observation
C31_FailedExecutionStillTerminal == [][FailedExecutionRound(AllCalls)]_vars

\* C31 for the calls of get_device_info whose arguments are a JSON object
C31_FailedExecutionUnlessRaised ==
    [][FailedExecutionRound({c \in AllCalls : c.args.shape # "scalar"})]_vars

ThreeEqual(k) ==
    /\ k >= 3
    /\ ~model_log[k - 1].raised /\ ~model_log[k - 2].raised
    /\ Strip(model_log[k].text) = Strip(model_log[k - 1].text)
    /\ Strip(model_log[k].text) = Strip(model_log[k - 2].text)

\* C32: a stall is declared in round r only if the trimmed model outputs of
\* rounds r-2, r-1 and r are equal; no stall is declared in round 1 or in
\* round 2 of a query
C32_StallNeedsThreeEqual ==
    \A k \in Rounds :
        (~model_log[k].raised /\ model_log[k].stall) => ThreeEqual(k)

\* C32 for the outputs that are not empty after trimming
C32_StallNeedsThreeEqualUnlessEmpty ==
    \A k \in Rounds :
        (/\ ~model_log[k].raised
         /\ model_log[k].stall
         /\ Strip(model_log[k].text) # <<>>)
        => ThreeEqual(k)

\* the messages the round just taken has appended to the message list
AppendedNow == SubSeq(messages', Len(messages) + 1, Len(messages'))

\* C33: a round of process_query appends at most one synthetic user message
\* (observation, steering or correction) to the message list, and never
\* two user messages in a row
C33_OneSyntheticPerRound ==
    [][(pc = "loop" /\ Len(model_log') = Len(model_log) + 1
          /\ Len(messages') >= Len(messages))
       => /\ Cardinality({i \in 1..Len(AppendedNow) :
                            AppendedNow[i].role = "user"}) <= 1
          /\ \A i \in 1..(Len(AppendedNow) - 1) :
                ~(AppendedNow[i].role = "user"
                  /\ AppendedNow[i + 1].role = "user")]_vars

\* C33 for the rounds in which no stall is declared
C33_OneSyntheticPerRoundUnlessStall ==
    [][(pc = "loop" /\ Len(model_log') = Len(model_log) + 1
          /\ Len(messages') >= Len(messages)
          /\ ~model_log'[Len(model_log')].stall)
       => Cardinality({i \in 1..Len(AppendedNow) :
                         AppendedNow[i].role = "user"}) <= 1]_vars

\* C34: the user turn appended after a tool execution states "You have
\* successfully retrieved the detailed report" only when the executed
\* get_device_report returned success; after a failed execution the turn
\* is the failure observation without that statement
C34_SuccessSteerOnlyOnSuccess ==
    [][(/\ Len(exec_log') = Len(exec_log) + 1
        /\ Len(messages') > Len(messages))
       => LET e == exec_log'[Len(exec_log')]
              turn == messages'[Len(messages')]
          IN  /\ turn.role = "user"
              /\ Contains(turn.content, "steer:successfully_retrieved_report")
                    => (e.call.name = GET_DEVICE_REPORT /\ e.result.success)
              /\ (e.call.name = GET_DEVICE_REPORT /\ ~e.result.success)
                    => turn.content = FailedObservation(e.result.error)]_vars

SimpleRoundsOf(n) ==
    {i \in 1..Len(simple_log) :
        simple_log[i].kind = "round" /\ simple_log[i].run = n}

SimpleBudgetKept ==
    \A n \in 1..SimpleRuns :
       /\ Cardinality(SimpleRoundsOf(n)) <= max_steps
       /\ Cardinality({i \in SimpleRoundsOf(n) : simple_log[i].executed})
             <= max_steps
       /\ \A i \in SimpleRoundsOf(n) :
             simple_log[i].raised
                => /\ i = Len(simple_log)
                   /\ simple_pc = "returned"
                   /\ simple_returned = bedrock_error("BackendError")
       /\ (/\ simple_pc = "returned"
           /\ n = SimpleRuns
           /\ \A i \in SimpleRoundsOf(n) :
                 ~simple_log[i].raised
                    /\ ~Contains(simple_log[i].text, FINAL))
          => /\ Cardinality(SimpleRoundsOf(n)) = max_steps
             /\ simple_returned = MAX_STEPS_REACHED

\* C35: SimpleReActAgent.run returns a text and raises nothing, whatever
\* the model outputs and the tool results are: it makes at most max_steps
\* model calls and tool executions, returns the backend error text in the
\* round whose model call fails, and returns the "Max steps reached" text
\* when max_steps rounds pass without a Final Answer
C35_RunAlwaysReturns ==
    /\ simple_pc # "raised"
    /\ SimpleBudgetKept

\* C35 without the claim that run raises nothing
C35_RunBudgetKept == SimpleBudgetKept

SimpleRoundRecords == {i \in 1..Len(simple_log) : simple_log[i].kind = "round"}

Alternates(sent) ==
    /\ Len(sent) >= 2
    /\ Len(sent) % 2 = 0
    /\ sent[1].role = "system"
    /\ \A j \in 2..Len(sent) :
          sent[j].role = IF j % 2 = 0 THEN "user" ELSE "assistant"

\* the message list after round i of simple_log, when the round did not end
\* the run
AfterRound(i) ==
    IF i < Len(simple_log) THEN simple_log[i + 1].sent ELSE simple_messages

\* C37: at every model call of SimpleReActAgent.run the message list is one
\* system message followed by messages that alternate user, assistant, ...,
\* from a user message to a user message; every round that does not end
\* the run appends the raw output as one assistant message and then one
\* user message
C37_MessagesAlternate ==
    \A i \in SimpleRoundRecords :
       /\ Alternates(simple_log[i].sent)
       /\ (\/ (i < Len(simple_log) /\ simple_log[i + 1].kind = "round")
           \/ (i = Len(simple_log) /\ simple_pc = "run"))
          => LET before == simple_log[i].sent
                 after == AfterRound(i)
             IN  /\ Len(after) = Len(before) + 2
                 /\ SubSeq(after, 1, Len(before)) = before
                 /\ after[Len(before) + 1] =
                       Msg("assistant", simple_log[i].text)
                 /\ after[Len(before) + 2].role = "user"

\* a run whose third model call follows a round that executed a tool and a
\* round without a tool call
C37_Witness ==
    \E i \in SimpleRoundRecords :
       /\ Len(simple_log[i].sent) = 6
       /\ \E j \in SimpleRoundRecords : j < i /\ simple_log[j].executed
       /\ \E j \in SimpleRoundRecords :
             j < i /\ simple_log[j].text = <<"a">>

\* C38: SimpleReActAgent keeps nothing between runs and has no ledger: the
\* message list of the first model call of every run is the system prompt
\* and the query of that run, and a tool call is executed in every round
\* whose output holds it, however often it was executed before, up to
\* max_steps times in a run
C38_NoStateNoLedger ==
    \A i \in SimpleRoundRecords :
       /\ simple_log[i - 1].kind = "run"
             => simple_log[i].sent =
                   <<SIMPLE_SYSTEM_PROMPT,
                     Msg("user", simple_log[i - 1].query)>>
       /\ LET text == simple_log[i].text
              block == SimpleReActAgent_parse_tool_call(text)
          IN  (/\ ~simple_log[i].raised
               /\ ~Contains(text, FINAL)
               /\ block # ""
               /\ Block(block).has_name
               /\ Block(block).args.shape # "scalar")
              => /\ simple_log[i].executed
                 /\ simple_log[i].call = ToolCall(block)

\* the second run of an agent executed the same call in each of its
\* max_steps rounds, after the first run had executed it as well
C38_Witness ==
    /\ SimpleRuns = 2
    /\ Cardinality({i \in SimpleRoundsOf(2) :
                       /\ simple_log[i].executed
                       /\ simple_log[i].call = ToolCall("X:info_h1")})
          = max_steps
    /\ \E i \in SimpleRoundsOf(1) :
          simple_log[i].executed /\ simple_log[i].call = ToolCall("X:info_h1")

\* a round of SimpleReActAgent.run whose output holds the marker executes
\* no tool and returns the trimmed text after the first marker
SimpleFinalFirst ==
    (/\ Len(simple_log') = Len(simple_log) + 1
     /\ simple_log'[Len(simple_log')].kind = "round"
     /\ ~simple_log'[Len(simple_log')].raised
     /\ Contains(simple_log'[Len(simple_log')].text, FINAL))
    => /\ ~simple_log'[Len(simple_log')].executed
       /\ simple_pc' = "returned"
       /\ simple_returned' = final_answer(simple_log'[Len(simple_log')].text)

\* the round of process_query that has just got a text from the model
ReActRound ==
    /\ Len(model_log') = Len(model_log) + 1
    /\ ~model_log'[Len(model_log')].raised

RoundCalls == find_all_tool_calls(model_log'[Len(model_log')].text)

\* the round has executed a tool call and has not returned a final answer
ExecutedNotAnswered ==
    /\ Len(exec_log') = Len(exec_log) + 1
    /\ exit' # "final"

\* C36 as stated: a round of SimpleReActAgent.run with the marker in its
\* output executes no tool and returns the text after the first marker,
\* while a round of ReActAgent.process_query whose output holds a tool call
\* that is not in the ledger executes a tool and returns no final answer
C36_NotYetExecutedRunsFirst ==
    [][/\ SimpleFinalFirst
       /\ (/\ ReActRound
            /\ \E i \in 1..Len(RoundCalls) :
                  generate_tool_id(RoundCalls[i]) \notin Ledger(tool_executions))
           => ExecutedNotAnswered]_vars

\* C36, amended: a round of SimpleReActAgent.run with the marker in its
\* output executes no tool and returns the text after the first marker,
\* while a round of ReActAgent.process_query whose output holds a tool call
\* that is not in the ledger, is no second device-info call and does not
\* come after a device report executes the first such call and returns no
\* final answer, marker or not
C36_ExecutableRunsFirst ==
    [][/\ SimpleFinalFirst
       /\ LET may == {i \in 1..Len(RoundCalls) :
                        /\ generate_tool_id(RoundCalls[i])
                              \notin Ledger(tool_executions)
                        /\ ~(/\ device_info_executed
                              /\ RoundCalls[i].name = GET_DEVICE_INFO)
                        /\ ~device_report_executed}
          IN  (ReActRound /\ may # {})
              => /\ ExecutedNotAnswered
                 /\ \E i \in may :
                       /\ \A j \in may : i <= j
                       /\ exec_log'[Len(exec_log')].call = RoundCalls[i]]_vars

\* both agents got the same text, marker and then a tool call: the simple
\* agent returned the text after the marker, the block in it, without
\* executing, the other one executed the call and went on
C36_Witness ==
    /\ simple_pc = "returned"
    /\ \E i \in DOMAIN simple_log :
          /\ simple_log[i].kind = "round"
          /\ simple_log[i].text = <<FINAL, WS, "a", WS, "X:info_h2">>
          /\ ~simple_log[i].executed
    /\ simple_returned = <<"a", WS, "X:info_h2">>
    /\ \E k \in DOMAIN exec_log :
          /\ exec_log[k].call = ToolCall("X:info_h2")
          /\ model_log[exec_log[k].round].text
                = <<FINAL, WS, "a", WS, "X:info_h2">>
    /\ pc = "loop"

FairSpec == Spec /\ WF_vars(Next)

====
